---- MODULE Spec2Model ----
(***************************************************************************)
(* Model of the alias store, the matcher and the SQL guard of the          *)
(* mcp-sqlServer package.                                                  *)
(*                                                                         *)
(* Text is a sequence of one-character strings, so that lower(), strip()   *)
(* and the substring test `x in y` are computed character by character.    *)
(***************************************************************************)
EXTENDS Integers, Sequences, FiniteSets, TLC

VARIABLES
    aliases_config,      \* UniversalAliasMapper.aliases_config
    product_to_aliases,  \* UniversalAliasMapper.product_to_aliases
    source,              \* the document at UniversalAliasMapper.config_path
    lastOp,              \* the last call made on the store and how it ended
    calls,               \* the number of calls made on the store so far
    match,               \* the last call made on a matcher, with its result
    sql,                 \* the last call made on the SQL tools, with its result
    validation,          \* the last validate_config call, with its result
    suggest,             \* the last suggest_query_structure call, with its result
    parse,               \* the last parse_user_query call, with its result
    schema,              \* the last get_available_tables_and_columns call, with its result
    race,                \* an add_alias call running beside a reader, with what the reader saw
    extract              \* the last extract_json_from_response call, with its result

storeVars == <<aliases_config, product_to_aliases, source, lastOp, calls>>

\* The calls made on the tools beside the matcher and the SQL guard
toolVars == <<validation, suggest, parse, schema, race, extract>>

vars ==
    <<aliases_config, product_to_aliases, source, lastOp, calls, match, sql,
      toolVars>>

----------------------------------------------------------------------------
(* Text *)

UpperChars == <<"A","B","C","D","E","F","G","H","I","J","K","L","M",
                "N","O","P","Q","R","S","T","U","V","W","X","Y","Z">>

LowerChars == <<"a","b","c","d","e","f","g","h","i","j","k","l","m",
                "n","o","p","q","r","s","t","u","v","w","x","y","z">>

\* str.lower() on one character
LowerChar(c) ==
    IF \E i \in DOMAIN UpperChars : UpperChars[i] = c
    THEN LowerChars[CHOOSE i \in DOMAIN UpperChars : UpperChars[i] = c]
    ELSE c

\* str.lower()
Lower(s) == [i \in 1..Len(s) |-> LowerChar(s[i])]

\* `needle in hay` on two str
Contains(hay, needle) ==
    \E i \in 0..(Len(hay) - Len(needle)) :
        SubSeq(hay, i + 1, i + Len(needle)) = needle

\* The elements of a list, as `for x in xs` visits them
Elems(xs) == {xs[i] : i \in DOMAIN xs}

----------------------------------------------------------------------------
(* The alias store: product_aliases.py *)

NoError == "none"

\* The categories of the fallback configuration
FallbackCategories ==
    {"product_aliases", "os_aliases", "http_method_aliases", "provider_aliases",
     "resource_aliases", "time_aliases", "quantity_aliases", "comparison_aliases"}

EmptyMap == <<>>

\* The configuration _load_aliases_config falls back to
FallbackConfig ==
    [cats |-> [c \in FallbackCategories |-> EmptyMap],
     hasMeta |-> FALSE,
     meta |-> EmptyMap]

\* json.dump of the required sections only
JsonDumpKnownSections(cfg) ==
    [kind |-> "doc",
     members |-> {<<c, {<<a, cfg.cats[c][a]>> : a \in DOMAIN cfg.cats[c]}>> :
                    c \in DOMAIN cfg.cats \cap FallbackCategories},
     hasMeta |-> cfg.hasMeta,
     metadata |-> {<<f, cfg.meta[f]>> : f \in DOMAIN cfg.meta}]

\* json.dump of the configuration: every mapping is written as its members
JsonDump(cfg) ==
    [kind |-> "doc",
     members |-> {<<c, {<<a, cfg.cats[c][a]>> : a \in DOMAIN cfg.cats[c]}>> :
                    c \in DOMAIN cfg.cats},
     hasMeta |-> cfg.hasMeta,
     metadata |-> {<<f, cfg.meta[f]>> : f \in DOMAIN cfg.meta}]

\* The value a JSON object's members give to a key
MemberValue(members, k) == (CHOOSE m \in members : m[1] = k)[2]

\* A JSON object read back as a mapping
JsonObject(members) ==
    [k \in {m[1] : m \in members} |-> MemberValue(members, k)]

\* json.load of a document
JsonLoad(doc) ==
    [cats |-> [c \in {m[1] : m \in doc.members} |->
                  JsonObject(MemberValue(doc.members, c))],
     hasMeta |-> doc.hasMeta,
     meta |-> JsonObject(doc.metadata)]

AbsentSource == [kind |-> "absent", members |-> {}, hasMeta |-> FALSE, metadata |-> {}]

\* A document that is no complete JSON text: what an interrupted write leaves
PartialSource == [kind |-> "partial", members |-> {}, hasMeta |-> FALSE, metadata |-> {}]

\* _load_aliases_config falling back to the three sections it warns about
load_aliases_config_warned_sections(src) ==
    IF src.kind # "doc"
    THEN [config |-> [FallbackConfig EXCEPT !.cats =
                        [c \in {"product_aliases", "os_aliases", "http_method_aliases"}
                            |-> EmptyMap]],
          caught |-> "Exception", raised |-> FALSE]
    ELSE [config |-> JsonLoad(src), caught |-> NoError, raised |-> FALSE]

\* _load_aliases_config: the configuration, and the error it caught and printed
load_aliases_config(src) ==
    IF src.kind = "absent"
    THEN [config |-> FallbackConfig, caught |-> "FileNotFoundError", raised |-> FALSE]
    ELSE IF src.kind # "doc"
    THEN [config |-> FallbackConfig, caught |-> "JSONDecodeError", raised |-> FALSE]
    ELSE [config |-> JsonLoad(src), caught |-> NoError, raised |-> FALSE]

\* self.aliases_config.get(category, {})
get_aliases_for_category(cfg, category) ==
    IF category \in DOMAIN cfg.cats THEN cfg.cats[category] ELSE EmptyMap

\* The inner loop `for product in products` over a list of targets:
\* a product not yet in the index gets an empty set, then the alias is added
RECURSIVE IndexAddAll(_, _, _, _)
IndexAddAll(index, products, i, alias) ==
    IF i > Len(products) THEN index
    ELSE IF products[i] \notin DOMAIN index
         THEN IndexAddAll((products[i] :> {alias}) @@ index, products, i + 1, alias)
         ELSE IndexAddAll([index EXCEPT ![products[i]] = @ \cup {alias}],
                          products, i + 1, alias)

\* The nested loops `for alias, products in product_aliases.items()`,
\* `for product in products`: one step for each alias and each of its products
RECURSIVE IndexAddItems(_, _)
IndexAddItems(index, todo) ==
    IF todo = {} THEN index
    ELSE LET item == CHOOSE x \in todo : TRUE
         IN IF item[2] \notin DOMAIN index
            THEN IndexAddItems((item[2] :> {item[1]}) @@ index, todo \ {item})
            ELSE IndexAddItems([index EXCEPT ![item[2]] = @ \cup {item[1]}],
                               todo \ {item})

\* _build_reverse_mappings, run on the index as it is
build_reverse_mappings(cfg, index) ==
    LET product_aliases == get_aliases_for_category(cfg, "product_aliases")
    IN IndexAddItems(index, UNION {{<<alias, product>> :
                                        product \in Elems(product_aliases[alias])} :
                                    alias \in DOMAIN product_aliases})

\* self.product_to_aliases.get(product_name, set())
get_aliases_for_product(index, product_name) ==
    IF product_name \in DOMAIN index THEN index[product_name] ELSE {}

\* The outcomes of writing the source: the write succeeds, open() fails,
\* or json.dump fails after open() has truncated the file
WriteOutcomes == {"ok", "open_fails", "dump_fails"}

LastUpdatedStamp == "2025-08-28"

\* save_config, given how the write goes
save_config(cfg, src, env) ==
    LET stamped == [cfg EXCEPT !.hasMeta = TRUE,
                               !.meta = [f \in DOMAIN cfg.meta \cup {"last_updated"} |->
                                            IF f = "last_updated" THEN LastUpdatedStamp
                                            ELSE cfg.meta[f]]]
    IN [config |-> stamped,
        source |-> CASE env = "ok" -> JsonDump(stamped)
                     [] env = "open_fails" -> src
                     [] OTHER -> PartialSource,
        caught |-> IF env = "ok" THEN NoError ELSE "Exception",
        raised |-> FALSE]

\* add_alias extending the targets an alias already has
add_alias_memory_merging(cfg, index, category, alias, targets) ==
    LET key == Lower(alias)
        old == get_aliases_for_category(cfg, category)
        cats1 == [c \in DOMAIN cfg.cats \cup {category} |->
                    IF c = category
                    THEN [a \in DOMAIN old \cup {key} |->
                            IF a = key
                            THEN (IF key \in DOMAIN old THEN old[key] ELSE <<>>) \o targets
                            ELSE old[a]]
                    ELSE cfg.cats[c]]
    IN [config |-> [cfg EXCEPT !.cats = cats1],
        index |-> IF category = "product_aliases"
                  THEN IndexAddAll(index, targets, 1, key)
                  ELSE index]

\* add_alias up to the reverse-index update
add_alias_memory(cfg, index, category, alias, targets) ==
    LET key == Lower(alias)
        old == get_aliases_for_category(cfg, category)
        cats1 == [c \in DOMAIN cfg.cats \cup {category} |->
                    IF c = category
                    THEN [a \in DOMAIN old \cup {key} |->
                            IF a = key THEN targets ELSE old[a]]
                    ELSE cfg.cats[c]]
    IN [config |-> [cfg EXCEPT !.cats = cats1],
        index |-> IF category = "product_aliases"
                  THEN IndexAddAll(index, targets, 1, key)
                  ELSE index]

\* add_alias
add_alias(cfg, index, src, category, alias, targets, save_to_file, env) ==
    LET m == add_alias_memory(cfg, index, category, alias, targets)
        s == save_config(m.config, src, env)
    IN IF save_to_file
       THEN [config |-> s.config, index |-> m.index, source |-> s.source,
             caught |-> s.caught, raised |-> s.raised]
       ELSE [config |-> m.config, index |-> m.index, source |-> src,
             caught |-> NoError, raised |-> FALSE]

\* add_alias, statement by statement, as another thread sees it
\* `if category not in self.aliases_config: self.aliases_config[category] = {}`
add_alias_ensure_category(cfg, category) ==
    IF category \in DOMAIN cfg.cats THEN cfg
    ELSE [cfg EXCEPT !.cats = (category :> EmptyMap) @@ cfg.cats]

\* `self.aliases_config[category][alias.lower()] = targets`
add_alias_assign(cfg, category, alias, targets) ==
    [cfg EXCEPT !.cats[category] = (Lower(alias) :> targets) @@ cfg.cats[category]]

\* `if target not in self.product_to_aliases: self.product_to_aliases[target] = set()`
add_alias_index_new(index, target) ==
    IF target \in DOMAIN index THEN index ELSE (target :> {}) @@ index

\* `self.product_to_aliases[target].add(alias.lower())`
add_alias_index_add(index, target, alias) ==
    [index EXCEPT ![target] = @ \cup {Lower(alias)}]

\* What a reader gets from get_aliases_for_category('product_aliases') and
\* get_aliases_for_product(product)
ReaderView(cfg, index, product) ==
    [map |-> get_aliases_for_category(cfg, "product_aliases"),
     product |-> product,
     aliases |-> get_aliases_for_product(index, product)]

----------------------------------------------------------------------------
(* alias_manager.py *)

\* AliasManager.add_alias: what it prints after calling the mapper
manager_add_alias(cfg, index, src, category, alias, targets, save, env) ==
    LET r == add_alias(cfg, index, src, category, alias, targets, save, env)
    IN [config |-> r.config, index |-> r.index, source |-> r.source,
        caught |-> r.caught, raised |-> FALSE,
        reported |-> IF r.raised THEN "failed"
                     ELSE IF save THEN "added_and_saved" ELSE "added"]

\* get_all_aliases: the configuration without the keys that start with "_"
get_all_aliases(cfg) == cfg.cats

\* get_metadata: self.aliases_config.get('_metadata', {})
get_metadata(cfg) == IF cfg.hasMeta THEN cfg.meta ELSE EmptyMap

required_metadata == <<"version", "last_updated", "description">>

\* The issues validate_config collects: an empty category, an alias whose
\* targets are empty, a metadata field that is missing
CollectedIssues(cfg) ==
    LET all_aliases == get_all_aliases(cfg)
        metadata == get_metadata(cfg)
    IN {[kind |-> "empty_category", category |-> c, name |-> <<>>] :
            c \in {x \in DOMAIN all_aliases : all_aliases[x] = EmptyMap}}
       \cup
       UNION {{[kind |-> "no_targets", category |-> c, name |-> a] :
                   a \in {x \in DOMAIN all_aliases[c] : all_aliases[c][x] = <<>>}} :
               c \in DOMAIN all_aliases}
       \cup
       {[kind |-> "missing_metadata", category |-> "_metadata",
         name |-> required_metadata[i]] :
            i \in {j \in DOMAIN required_metadata :
                      required_metadata[j] \notin DOMAIN metadata}}

\* The value of a function that ends without a return statement
None == [isList |-> FALSE, items |-> {}]

\* AliasManager.validate_config: the issues are printed, nothing is returned
validate_config(cfg) ==
    [config |-> cfg, printed |-> CollectedIssues(cfg), returned |-> None,
     raised |-> FALSE]

\* No validate_config call made yet
NoValidation ==
    [done |-> FALSE, printed |-> {}, returned |-> None, raised |-> FALSE]

----------------------------------------------------------------------------
(* The matcher: product_aliases.py and enhanced_aliases.py *)

\* A dict literal: the mapping its key/value pairs give
MapOf(pairs) ==
    [k \in {p[1] : p \in pairs} |-> (CHOOSE p \in pairs : p[1] = k)[2]]

\* EnhancedAliasMapper.product_aliases
Enhanced_product_aliases ==
    MapOf({
        <<<<"j","s">>, <<<<"J","a","v","a","S","c","r","i","p","t">>, <<"J","a","v","a","S","c","r","i","p","t"," ","(","N","o","d","e",".","J","S",")">>, <<"J","a","v","a","S","c","r","i","p","t"," ","R","L","C">>>>>>,
        <<<<"j","a","v","a","s","c","r","i","p","t">>, <<<<"J","a","v","a","S","c","r","i","p","t">>, <<"J","a","v","a","S","c","r","i","p","t"," ","(","N","o","d","e",".","J","S",")">>, <<"J","a","v","a","S","c","r","i","p","t"," ","R","L","C">>>>>>,
        <<<<"n","o","d","e">>, <<<<"J","a","v","a","S","c","r","i","p","t"," ","(","N","o","d","e",".","J","S",")">>>>>>,
        <<<<"n","o","d","e","j","s">>, <<<<"J","a","v","a","S","c","r","i","p","t"," ","(","N","o","d","e",".","J","S",")">>>>>>,
        <<<<"n","o","d","e",".","j","s">>, <<<<"J","a","v","a","S","c","r","i","p","t"," ","(","N","o","d","e",".","J","S",")">>>>>>,
        <<<<"r","l","c">>, <<<<"J","a","v","a","S","c","r","i","p","t"," ","R","L","C">>>>>>,
        <<<<"r","e","s","t">>, <<<<"J","a","v","a","S","c","r","i","p","t"," ","R","L","C">>>>>>,
        <<<<".","n","e","t">>, <<<<".","N","e","t"," ","C","o","d","e","-","g","e","n">>, <<".","N","e","t"," ","F","l","u","e","n","t">>>>>>,
        <<<<"d","o","t","n","e","t">>, <<<<".","N","e","t"," ","C","o","d","e","-","g","e","n">>, <<".","N","e","t"," ","F","l","u","e","n","t">>>>>>,
        <<<<"c","s","h","a","r","p">>, <<<<".","N","e","t"," ","C","o","d","e","-","g","e","n">>, <<".","N","e","t"," ","F","l","u","e","n","t">>>>>>,
        <<<<"c","#">>, <<<<".","N","e","t"," ","C","o","d","e","-","g","e","n">>, <<".","N","e","t"," ","F","l","u","e","n","t">>>>>>,
        <<<<"n","e","t">>, <<<<".","N","e","t"," ","C","o","d","e","-","g","e","n">>, <<".","N","e","t"," ","F","l","u","e","n","t">>>>>>,
        <<<<"c","s">>, <<<<".","N","e","t"," ","C","o","d","e","-","g","e","n">>, <<".","N","e","t"," ","F","l","u","e","n","t">>>>>>,
        <<<<"j","a","v","a">>, <<<<"J","a","v","a"," ","F","l","u","e","n","t"," ","L","i","t","e">>, <<"J","a","v","a"," ","F","l","u","e","n","t"," ","P","r","e","m","i","u","m">>>>>>,
        <<<<"j","d","k">>, <<<<"J","a","v","a"," ","F","l","u","e","n","t"," ","L","i","t","e">>, <<"J","a","v","a"," ","F","l","u","e","n","t"," ","P","r","e","m","i","u","m">>>>>>,
        <<<<"p","y","t","h","o","n">>, <<<<"P","y","t","h","o","n","-","S","D","K">>>>>>,
        <<<<"p","y">>, <<<<"P","y","t","h","o","n","-","S","D","K">>>>>>,
        <<<<"p","y","t","h","o","n","3">>, <<<<"P","y","t","h","o","n","-","S","D","K">>>>>>,
        <<<<"p","i","p">>, <<<<"P","y","t","h","o","n","-","S","D","K">>>>>>,
        <<<<"g","o">>, <<<<"G","o","-","S","D","K">>>>>>,
        <<<<"g","o","l","a","n","g">>, <<<<"G","o","-","S","D","K">>>>>>,
        <<<<"g","o","p","h","e","r">>, <<<<"G","o","-","S","D","K">>>>>>,
        <<<<"p","h","p">>, <<<<"P","H","P","-","S","D","K">>>>>>,
        <<<<"r","u","b","y">>, <<<<"R","u","b","y","-","S","D","K">>>>>>,
        <<<<"r","b">>, <<<<"R","u","b","y","-","S","D","K">>>>>>,
        <<<<"r","u","s","t">>, <<<<"R","u","s","t">>>>>>,
        <<<<"r","s">>, <<<<"R","u","s","t">>>>>>,
        <<<<"r","u","s","t","l","a","n","g">>, <<<<"R","u","s","t">>>>>>,
        <<<<"c","l","i">>, <<<<"A","z","u","r","e","C","L","I">>>>>>,
        <<<<"a","z","u","r","e","-","c","l","i">>, <<<<"A","z","u","r","e","C","L","I">>>>>>,
        <<<<"a","z">>, <<<<"A","z","u","r","e","C","L","I">>>>>>,
        <<<<"c","o","m","m","a","n","d","-","l","i","n","e">>, <<<<"A","z","u","r","e","C","L","I">>>>>>,
        <<<<"p","o","w","e","r","s","h","e","l","l">>, <<<<"A","z","u","r","e","P","o","w","e","r","s","h","e","l","l">>>>>>,
        <<<<"p","s">>, <<<<"A","z","u","r","e","P","o","w","e","r","s","h","e","l","l">>>>>>,
        <<<<"p","w","s","h">>, <<<<"A","z","u","r","e","P","o","w","e","r","s","h","e","l","l">>>>>>,
        <<<<"p","s","1">>, <<<<"A","z","u","r","e","P","o","w","e","r","s","h","e","l","l">>>>>>,
        <<<<"t","e","r","r","a","f","o","r","m">>, <<<<"T","e","r","r","a","f","o","r","m">>>>>>,
        <<<<"t","f">>, <<<<"T","e","r","r","a","f","o","r","m">>>>>>,
        <<<<"h","c","l">>, <<<<"T","e","r","r","a","f","o","r","m">>>>>>,
        <<<<"a","n","s","i","b","l","e">>, <<<<"A","n","s","i","b","l","e">>>>>>,
        <<<<"p","l","a","y","b","o","o","k">>, <<<<"A","n","s","i","b","l","e">>>>>>,
        <<<<"v","s","c","o","d","e">>, <<<<"V","S"," ","C","o","d","e"," ","A","z","u","r","e"," ","E","x","t","e","n","s","i","o","n">>>>>>,
        <<<<"v","s","-","c","o","d","e">>, <<<<"V","S"," ","C","o","d","e"," ","A","z","u","r","e"," ","E","x","t","e","n","s","i","o","n">>>>>>,
        <<<<"v","i","s","u","a","l","-","s","t","u","d","i","o","-","c","o","d","e">>, <<<<"V","S"," ","C","o","d","e"," ","A","z","u","r","e"," ","E","x","t","e","n","s","i","o","n">>>>>>,
        <<<<"c","o","d","e">>, <<<<"V","S"," ","C","o","d","e"," ","A","z","u","r","e"," ","E","x","t","e","n","s","i","o","n">>>>>>})

\* EnhancedAliasMapper.os_aliases
Enhanced_os_aliases ==
    MapOf({
        <<<<"w","i","n","d","o","w","s">>, <<<<"W","i","n","d","o","w","s">>>>>>,
        <<<<"w","i","n">>, <<<<"W","i","n","d","o","w","s">>>>>>,
        <<<<"m","i","c","r","o","s","o","f","t">>, <<<<"W","i","n","d","o","w","s">>>>>>,
        <<<<"m","s">>, <<<<"W","i","n","d","o","w","s">>>>>>,
        <<<<"w","i","n","1","0">>, <<<<"W","i","n","d","o","w","s">>>>>>,
        <<<<"w","i","n","1","1">>, <<<<"W","i","n","d","o","w","s">>>>>>,
        <<<<"l","i","n","u","x">>, <<<<"L","i","n","u","x">>>>>>,
        <<<<"u","b","u","n","t","u">>, <<<<"L","i","n","u","x">>>>>>,
        <<<<"d","e","b","i","a","n">>, <<<<"L","i","n","u","x">>>>>>,
        <<<<"c","e","n","t","o","s">>, <<<<"L","i","n","u","x">>>>>>,
        <<<<"r","h","e","l">>, <<<<"L","i","n","u","x">>>>>>,
        <<<<"r","e","d","h","a","t">>, <<<<"L","i","n","u","x">>>>>>,
        <<<<"f","e","d","o","r","a">>, <<<<"L","i","n","u","x">>>>>>,
        <<<<"s","u","s","e">>, <<<<"L","i","n","u","x">>>>>>,
        <<<<"u","n","i","x">>, <<<<"L","i","n","u","x">>>>>>,
        <<<<"m","a","c","o","s">>, <<<<"m","a","c","O","S">>>>>>,
        <<<<"m","a","c">>, <<<<"m","a","c","O","S">>>>>>,
        <<<<"o","s","x">>, <<<<"m","a","c","O","S">>>>>>,
        <<<<"a","p","p","l","e">>, <<<<"m","a","c","O","S">>>>>>,
        <<<<"d","a","r","w","i","n">>, <<<<"m","a","c","O","S">>>>>>})

\* EnhancedAliasMapper.http_method_aliases
Enhanced_http_method_aliases ==
    MapOf({
        <<<<"g","e","t">>, <<<<"G","E","T">>>>>>,
        <<<<"r","e","a","d">>, <<<<"G","E","T">>>>>>,
        <<<<"f","e","t","c","h">>, <<<<"G","E","T">>>>>>,
        <<<<"r","e","t","r","i","e","v","e">>, <<<<"G","E","T">>>>>>,
        <<<<"q","u","e","r","y">>, <<<<"G","E","T">>>>>>,
        <<<<"p","o","s","t">>, <<<<"P","O","S","T">>>>>>,
        <<<<"c","r","e","a","t","e">>, <<<<"P","O","S","T">>>>>>,
        <<<<"a","d","d">>, <<<<"P","O","S","T">>>>>>,
        <<<<"i","n","s","e","r","t">>, <<<<"P","O","S","T">>>>>>,
        <<<<"n","e","w">>, <<<<"P","O","S","T">>>>>>,
        <<<<"p","u","t">>, <<<<"P","U","T">>>>>>,
        <<<<"u","p","d","a","t","e">>, <<<<"P","U","T">>>>>>,
        <<<<"m","o","d","i","f","y">>, <<<<"P","U","T">>>>>>,
        <<<<"c","h","a","n","g","e">>, <<<<"P","U","T">>>>>>,
        <<<<"e","d","i","t">>, <<<<"P","U","T">>>>>>,
        <<<<"d","e","l","e","t","e">>, <<<<"D","E","L","E","T","E">>>>>>,
        <<<<"r","e","m","o","v","e">>, <<<<"D","E","L","E","T","E">>>>>>,
        <<<<"d","e","l">>, <<<<"D","E","L","E","T","E">>>>>>,
        <<<<"d","e","s","t","r","o","y">>, <<<<"D","E","L","E","T","E">>>>>>,
        <<<<"p","a","t","c","h">>, <<<<"P","A","T","C","H">>>>>>,
        <<<<"p","a","r","t","i","a","l">>, <<<<"P","A","T","C","H">>>>>>})

\* EnhancedAliasMapper.provider_aliases
Enhanced_provider_aliases ==
    MapOf({
        <<<<"c","o","m","p","u","t","e">>, <<<<"M","i","c","r","o","s","o","f","t",".","C","o","m","p","u","t","e">>>>>>,
        <<<<"v","m">>, <<<<"M","i","c","r","o","s","o","f","t",".","C","o","m","p","u","t","e">>>>>>,
        <<<<"v","i","r","t","u","a","l","-","m","a","c","h","i","n","e">>, <<<<"M","i","c","r","o","s","o","f","t",".","C","o","m","p","u","t","e">>>>>>,
        <<<<"s","e","r","v","e","r">>, <<<<"M","i","c","r","o","s","o","f","t",".","C","o","m","p","u","t","e">>>>>>,
        <<<<"s","t","o","r","a","g","e">>, <<<<"M","i","c","r","o","s","o","f","t",".","S","t","o","r","a","g","e">>>>>>,
        <<<<"b","l","o","b">>, <<<<"M","i","c","r","o","s","o","f","t",".","S","t","o","r","a","g","e">>>>>>,
        <<<<"f","i","l","e">>, <<<<"M","i","c","r","o","s","o","f","t",".","S","t","o","r","a","g","e">>>>>>,
        <<<<"d","i","s","k">>, <<<<"M","i","c","r","o","s","o","f","t",".","S","t","o","r","a","g","e">>>>>>,
        <<<<"n","e","t","w","o","r","k">>, <<<<"M","i","c","r","o","s","o","f","t",".","N","e","t","w","o","r","k">>>>>>,
        <<<<"n","e","t","w","o","r","k","i","n","g">>, <<<<"M","i","c","r","o","s","o","f","t",".","N","e","t","w","o","r","k">>>>>>,
        <<<<"v","n","e","t">>, <<<<"M","i","c","r","o","s","o","f","t",".","N","e","t","w","o","r","k">>>>>>,
        <<<<"s","u","b","n","e","t">>, <<<<"M","i","c","r","o","s","o","f","t",".","N","e","t","w","o","r","k">>>>>>,
        <<<<"n","s","g">>, <<<<"M","i","c","r","o","s","o","f","t",".","N","e","t","w","o","r","k">>>>>>,
        <<<<"w","e","b">>, <<<<"M","i","c","r","o","s","o","f","t",".","W","e","b">>>>>>,
        <<<<"w","e","b","a","p","p">>, <<<<"M","i","c","r","o","s","o","f","t",".","W","e","b">>>>>>,
        <<<<"a","p","p","-","s","e","r","v","i","c","e">>, <<<<"M","i","c","r","o","s","o","f","t",".","W","e","b">>>>>>,
        <<<<"w","e","b","s","i","t","e">>, <<<<"M","i","c","r","o","s","o","f","t",".","W","e","b">>>>>>,
        <<<<"s","q","l">>, <<<<"M","i","c","r","o","s","o","f","t",".","S","q","l">>>>>>,
        <<<<"d","a","t","a","b","a","s","e">>, <<<<"M","i","c","r","o","s","o","f","t",".","S","q","l">>>>>>,
        <<<<"d","b">>, <<<<"M","i","c","r","o","s","o","f","t",".","S","q","l">>>>>>,
        <<<<"m","y","s","q","l">>, <<<<"M","i","c","r","o","s","o","f","t",".","D","B","f","o","r","M","y","S","Q","L">>>>>>,
        <<<<"p","o","s","t","g","r","e","s","q","l">>, <<<<"M","i","c","r","o","s","o","f","t",".","D","B","f","o","r","P","o","s","t","g","r","e","S","Q","L">>>>>>,
        <<<<"c","o","s","m","o","s">>, <<<<"M","i","c","r","o","s","o","f","t",".","D","o","c","u","m","e","n","t","D","B">>>>>>,
        <<<<"c","o","s","m","o","s","d","b">>, <<<<"M","i","c","r","o","s","o","f","t",".","D","o","c","u","m","e","n","t","D","B">>>>>>,
        <<<<"c","o","n","t","a","i","n","e","r">>, <<<<"M","i","c","r","o","s","o","f","t",".","C","o","n","t","a","i","n","e","r","S","e","r","v","i","c","e">>>>>>,
        <<<<"a","k","s">>, <<<<"M","i","c","r","o","s","o","f","t",".","C","o","n","t","a","i","n","e","r","S","e","r","v","i","c","e">>>>>>,
        <<<<"k","u","b","e","r","n","e","t","e","s">>, <<<<"M","i","c","r","o","s","o","f","t",".","C","o","n","t","a","i","n","e","r","S","e","r","v","i","c","e">>>>>>,
        <<<<"k","8","s">>, <<<<"M","i","c","r","o","s","o","f","t",".","C","o","n","t","a","i","n","e","r","S","e","r","v","i","c","e">>>>>>,
        <<<<"k","e","y","v","a","u","l","t">>, <<<<"M","i","c","r","o","s","o","f","t",".","K","e","y","V","a","u","l","t">>>>>>,
        <<<<"v","a","u","l","t">>, <<<<"M","i","c","r","o","s","o","f","t",".","K","e","y","V","a","u","l","t">>>>>>,
        <<<<"s","e","c","r","e","t">>, <<<<"M","i","c","r","o","s","o","f","t",".","K","e","y","V","a","u","l","t">>>>>>,
        <<<<"c","e","r","t","i","f","i","c","a","t","e">>, <<<<"M","i","c","r","o","s","o","f","t",".","K","e","y","V","a","u","l","t">>>>>>})

\* EnhancedAliasMapper.resource_aliases
Enhanced_resource_aliases ==
    MapOf({
        <<<<"v","m">>, <<<<"v","i","r","t","u","a","l","M","a","c","h","i","n","e","s">>>>>>,
        <<<<"v","i","r","t","u","a","l","-","m","a","c","h","i","n","e">>, <<<<"v","i","r","t","u","a","l","M","a","c","h","i","n","e","s">>>>>>,
        <<<<"s","e","r","v","e","r">>, <<<<"v","i","r","t","u","a","l","M","a","c","h","i","n","e","s">>>>>>,
        <<<<"i","n","s","t","a","n","c","e">>, <<<<"v","i","r","t","u","a","l","M","a","c","h","i","n","e","s">>>>>>,
        <<<<"s","t","o","r","a","g","e","-","a","c","c","o","u","n","t">>, <<<<"s","t","o","r","a","g","e","A","c","c","o","u","n","t","s">>>>>>,
        <<<<"b","l","o","b">>, <<<<"s","t","o","r","a","g","e","A","c","c","o","u","n","t","s">>>>>>,
        <<<<"s","t","o","r","a","g","e">>, <<<<"s","t","o","r","a","g","e","A","c","c","o","u","n","t","s">>>>>>,
        <<<<"v","n","e","t">>, <<<<"v","i","r","t","u","a","l","N","e","t","w","o","r","k","s">>>>>>,
        <<<<"v","i","r","t","u","a","l","-","n","e","t","w","o","r","k">>, <<<<"v","i","r","t","u","a","l","N","e","t","w","o","r","k","s">>>>>>,
        <<<<"n","e","t","w","o","r","k">>, <<<<"v","i","r","t","u","a","l","N","e","t","w","o","r","k","s">>>>>>,
        <<<<"s","u","b","n","e","t">>, <<<<"s","u","b","n","e","t","s">>>>>>,
        <<<<"n","s","g">>, <<<<"n","e","t","w","o","r","k","S","e","c","u","r","i","t","y","G","r","o","u","p","s">>>>>>,
        <<<<"s","e","c","u","r","i","t","y","-","g","r","o","u","p">>, <<<<"n","e","t","w","o","r","k","S","e","c","u","r","i","t","y","G","r","o","u","p","s">>>>>>,
        <<<<"w","e","b","a","p","p">>, <<<<"w","e","b","A","p","p","s">>>>>>,
        <<<<"w","e","b","-","a","p","p">>, <<<<"w","e","b","A","p","p","s">>>>>>,
        <<<<"a","p","p","-","s","e","r","v","i","c","e">>, <<<<"w","e","b","A","p","p","s">>>>>>,
        <<<<"w","e","b","s","i","t","e">>, <<<<"w","e","b","A","p","p","s">>>>>>,
        <<<<"s","q","l","-","s","e","r","v","e","r">>, <<<<"s","q","l","S","e","r","v","e","r","s">>>>>>,
        <<<<"d","a","t","a","b","a","s","e">>, <<<<"d","a","t","a","b","a","s","e","s">>>>>>,
        <<<<"d","b">>, <<<<"d","a","t","a","b","a","s","e","s">>>>>>,
        <<<<"a","k","s">>, <<<<"k","u","b","e","r","n","e","t","e","s","C","l","u","s","t","e","r","s">>>>>>,
        <<<<"k","u","b","e","r","n","e","t","e","s">>, <<<<"k","u","b","e","r","n","e","t","e","s","C","l","u","s","t","e","r","s">>>>>>,
        <<<<"k","8","s">>, <<<<"k","u","b","e","r","n","e","t","e","s","C","l","u","s","t","e","r","s">>>>>>,
        <<<<"c","l","u","s","t","e","r">>, <<<<"k","u","b","e","r","n","e","t","e","s","C","l","u","s","t","e","r","s">>>>>>,
        <<<<"k","e","y","v","a","u","l","t">>, <<<<"k","e","y","V","a","u","l","t","s">>>>>>,
        <<<<"v","a","u","l","t">>, <<<<"k","e","y","V","a","u","l","t","s">>>>>>})

\* EnhancedAliasMapper.time_aliases
Enhanced_time_aliases ==
    MapOf({
        <<<<"t","o","d","a","y">>, <<"2","0","2","5","-","0","8","-","2","8">>>>,
        <<<<"t","h","i","s","-","m","o","n","t","h">>, <<"2","0","2","5","-","0","8">>>>,
        <<<<"c","u","r","r","e","n","t","-","m","o","n","t","h">>, <<"2","0","2","5","-","0","8">>>>,
        <<<<"l","a","s","t","-","m","o","n","t","h">>, <<"2","0","2","5","-","0","7">>>>,
        <<<<"p","r","e","v","i","o","u","s","-","m","o","n","t","h">>, <<"2","0","2","5","-","0","7">>>>,
        <<<<"t","h","i","s","-","y","e","a","r">>, <<"2","0","2","5">>>>,
        <<<<"c","u","r","r","e","n","t","-","y","e","a","r">>, <<"2","0","2","5">>>>,
        <<<<"l","a","s","t","-","y","e","a","r">>, <<"2","0","2","4">>>>,
        <<<<"p","r","e","v","i","o","u","s","-","y","e","a","r">>, <<"2","0","2","4">>>>,
        <<<<"r","e","c","e","n","t">>, <<"O","R","D","E","R"," ","B","Y"," ","M","o","n","t","h"," ","D","E","S","C">>>>,
        <<<<"l","a","t","e","s","t">>, <<"O","R","D","E","R"," ","B","Y"," ","M","o","n","t","h"," ","D","E","S","C">>>>,
        <<<<"n","e","w","e","s","t">>, <<"O","R","D","E","R"," ","B","Y"," ","M","o","n","t","h"," ","D","E","S","C">>>>,
        <<<<"o","l","d","e","s","t">>, <<"O","R","D","E","R"," ","B","Y"," ","M","o","n","t","h"," ","A","S","C">>>>,
        <<<<"e","a","r","l","i","e","s","t">>, <<"O","R","D","E","R"," ","B","Y"," ","M","o","n","t","h"," ","A","S","C">>>>})

\* EnhancedAliasMapper.quantity_aliases
Enhanced_quantity_aliases ==
    MapOf({
        <<<<"t","o","p">>, <<"T","O","P">>>>,
        <<<<"f","i","r","s","t">>, <<"T","O","P">>>>,
        <<<<"l","i","m","i","t">>, <<"T","O","P">>>>,
        <<<<"m","o","s","t">>, <<"O","R","D","E","R"," ","B","Y"," ","[","c","o","u","n","t","_","c","o","l","u","m","n","]"," ","D","E","S","C">>>>,
        <<<<"h","i","g","h","e","s","t">>, <<"O","R","D","E","R"," ","B","Y"," ","[","c","o","u","n","t","_","c","o","l","u","m","n","]"," ","D","E","S","C">>>>,
        <<<<"m","a","x","i","m","u","m">>, <<"O","R","D","E","R"," ","B","Y"," ","[","c","o","u","n","t","_","c","o","l","u","m","n","]"," ","D","E","S","C">>>>,
        <<<<"l","e","a","s","t">>, <<"O","R","D","E","R"," ","B","Y"," ","[","c","o","u","n","t","_","c","o","l","u","m","n","]"," ","A","S","C">>>>,
        <<<<"l","o","w","e","s","t">>, <<"O","R","D","E","R"," ","B","Y"," ","[","c","o","u","n","t","_","c","o","l","u","m","n","]"," ","A","S","C">>>>,
        <<<<"m","i","n","i","m","u","m">>, <<"O","R","D","E","R"," ","B","Y"," ","[","c","o","u","n","t","_","c","o","l","u","m","n","]"," ","A","S","C">>>>,
        <<<<"t","o","t","a","l">>, <<"S","U","M","(","[","c","o","u","n","t","_","c","o","l","u","m","n","]",")">>>>,
        <<<<"s","u","m">>, <<"S","U","M","(","[","c","o","u","n","t","_","c","o","l","u","m","n","]",")">>>>,
        <<<<"c","o","u","n","t">>, <<"C","O","U","N","T","(","*",")">>>>,
        <<<<"n","u","m","b","e","r">>, <<"C","O","U","N","T","(","*",")">>>>,
        <<<<"a","v","e","r","a","g","e">>, <<"A","V","G","(","[","c","o","u","n","t","_","c","o","l","u","m","n","]",")">>>>,
        <<<<"a","v","g">>, <<"A","V","G","(","[","c","o","u","n","t","_","c","o","l","u","m","n","]",")">>>>})

\* The tables whose values are one str instead of a list of targets
StrValued == {"time", "quantity"}

\* getattr(self, f'{category}_aliases', {})
EnhancedTable(category) ==
    CASE category = "product" -> Enhanced_product_aliases
      [] category = "os" -> Enhanced_os_aliases
      [] category = "http_method" -> Enhanced_http_method_aliases
      [] category = "provider" -> Enhanced_provider_aliases
      [] category = "resource" -> Enhanced_resource_aliases
      [] category = "time" -> Enhanced_time_aliases
      [] category = "quantity" -> Enhanced_quantity_aliases
      [] OTHER -> EmptyMap

\* What matches.extend(targets) appends: the elements of a list, the
\* characters of a str
Extended(category, targets) ==
    IF category \in StrValued
    THEN {<<targets[i]>> : i \in DOMAIN targets}
    ELSE Elems(targets)

\* The loop of EnhancedAliasMapper.find_matches over alias_map.items(): each
\* alias found in the text extends the matches with its targets
EnhancedItems(category, alias_map, todo, text_lower) ==
    UNION {Extended(category, alias_map[alias]) :
              alias \in {a \in todo : Contains(text_lower, a)}}

\* EnhancedAliasMapper.find_matches; the returned list as a set
enhanced_find_matches(text, category) ==
    LET alias_map == EnhancedTable(category)
    IN EnhancedItems(category, alias_map, DOMAIN alias_map, Lower(text))

\* An optional list argument that was not passed
NotGiven == [given |-> FALSE, values |-> <<>>]

\* No matcher call made yet
NoMatch ==
    [op |-> "none", text |-> <<>>, category |-> "", available |-> NotGiven,
     done |-> FALSE, result |-> {}]

Given(values) == [given |-> TRUE, values |-> values]

\* The loop `for target in targets` of find_matches_by_category
RECURSIVE MatchTargets(_, _, _, _)
MatchTargets(matched, targets, i, available_values) ==
    IF i > Len(targets) THEN matched
    ELSE MatchTargets(IF ~available_values.given
                         \/ targets[i] \in Elems(available_values.values)
                      THEN matched \cup {targets[i]}
                      ELSE matched,
                      targets, i + 1, available_values)

\* The loop over category_aliases.items() of find_matches_by_category: each
\* alias found in the query adds its targets
MatchItems(mapping, todo, query_lower, available_values) ==
    UNION {MatchTargets({}, mapping[alias], 1, available_values) :
              alias \in {a \in todo : Contains(query_lower, Lower(a))}}

\* find_matches_by_category taking an alias only when it is the whole text
find_matches_by_category_exact(cfg, query_text, category, available_values) ==
    LET category_aliases == get_aliases_for_category(cfg, category)
    IN MatchItems(category_aliases,
                  DOMAIN category_aliases \cap {Lower(query_text)},
                  Lower(query_text), available_values)

\* find_matches_by_category comparing the text as typed
find_matches_by_category_as_typed(cfg, query_text, category, available_values) ==
    LET category_aliases == get_aliases_for_category(cfg, category)
    IN MatchItems(category_aliases, DOMAIN category_aliases,
                  query_text, available_values)

\* find_matches_by_category; the returned list as a set
find_matches_by_category(cfg, query_text, category, available_values) ==
    LET category_aliases == get_aliases_for_category(cfg, category)
    IN MatchItems(category_aliases, DOMAIN category_aliases,
                  Lower(query_text), available_values)

\* The loop `for product in available_products` of find_products_by_query
RECURSIVE DirectMatches(_, _, _, _)
DirectMatches(matched, available_products, i, query_lower) ==
    IF i > Len(available_products) THEN matched
    ELSE DirectMatches(IF Contains(query_lower, Lower(available_products[i]))
                       THEN matched \cup {available_products[i]}
                       ELSE matched,
                       available_products, i + 1, query_lower)

\* find_products_by_query running the alias phase whatever the first found
find_products_by_query_both(cfg, query_text, available_products) ==
    LET product_aliases == get_aliases_for_category(cfg, "product_aliases")
    IN DirectMatches({}, available_products, 1, Lower(query_text))
       \cup MatchItems(product_aliases, DOMAIN product_aliases,
                       Lower(query_text), Given(available_products))

\* find_products_by_query adding every target of a matching alias
find_products_by_query_unfiltered(cfg, query_text, available_products) ==
    LET direct == DirectMatches({}, available_products, 1, Lower(query_text))
        product_aliases == get_aliases_for_category(cfg, "product_aliases")
    IN IF direct # {} THEN direct
       ELSE MatchItems(product_aliases, DOMAIN product_aliases,
                       Lower(query_text), NotGiven)

\* find_products_by_query; the returned list as a set
find_products_by_query(cfg, query_text, available_products) ==
    LET query_lower == Lower(query_text)
        direct == DirectMatches({}, available_products, 1, query_lower)
        product_aliases == get_aliases_for_category(cfg, "product_aliases")
    IN IF direct # {} THEN direct
       ELSE MatchItems(product_aliases, DOMAIN product_aliases,
                       query_lower, Given(available_products))

----------------------------------------------------------------------------
(* The SQL guard: simple_mcp_tools.py *)

\* The characters str.strip() removes
Whitespace == {" ", "\t", "\n", "\r"}

\* str.strip(): the text without its leading and trailing whitespace
Strip(s) ==
    LET keep == {i \in 1..Len(s) : s[i] \notin Whitespace}
    IN IF keep = {} THEN <<>>
       ELSE SubSeq(s, CHOOSE i \in keep : \A j \in keep : i <= j,
                      CHOOSE i \in keep : \A j \in keep : j <= i)

\* str.startswith(prefix)
StartsWith(s, prefix) ==
    Len(s) >= Len(prefix) /\ SubSeq(s, 1, Len(prefix)) = prefix

SelectWord == <<"s","e","l","e","c","t">>

dangerous_keywords ==
    << <<"d","r","o","p">>, <<"d","e","l","e","t","e">>,
       <<"i","n","s","e","r","t">>, <<"u","p","d","a","t","e">>,
       <<"c","r","e","a","t","e">>, <<"a","l","t","e","r">>,
       <<"t","r","u","n","c","a","t","e">> >>

\* The results of execute_sql_query_direct, by what the caller is told
OnlySelectError == "error: Only SELECT queries are allowed"
ProhibitedError == "error: Query contains prohibited operations"
ExecutionError == "success: False, error: Error executing query"
Success == "success: True"

\* What the SQL client does with a query: it returns rows or it raises
ClientOutcomes == {"rows", "raises"}

\* execute_sql_query_direct looking for the keywords in the text as typed
execute_sql_query_direct_as_typed(sql_query, client) ==
    LET sql_lower == Strip(Lower(sql_query))
    IN IF ~StartsWith(sql_lower, SelectWord)
       THEN [sent |-> <<>>, result |-> OnlySelectError]
       ELSE IF \E i \in DOMAIN dangerous_keywords :
                  Contains(sql_query, dangerous_keywords[i])
       THEN [sent |-> <<>>, result |-> ProhibitedError]
       ELSE [sent |-> <<sql_query>>,
             result |-> IF client = "rows" THEN Success ELSE ExecutionError]

\* execute_sql_query_direct: the queries handed to
\* sql_client.execute_query_via_rest, and the result returned
execute_sql_query_direct(sql_query, client) ==
    LET sql_lower == Strip(Lower(sql_query))
    IN IF ~StartsWith(sql_lower, SelectWord)
       THEN [sent |-> <<>>, result |-> OnlySelectError]
       ELSE IF \E i \in DOMAIN dangerous_keywords :
                  Contains(sql_lower, dangerous_keywords[i])
       THEN [sent |-> <<>>, result |-> ProhibitedError]
       ELSE [sent |-> <<sql_query>>,
             result |-> IF client = "rows" THEN Success ELSE ExecutionError]

DigitChars == <<"0","1","2","3","4","5","6","7","8","9">>

\* str() of a natural number, as the f-string formats {limit}
RECURSIVE IntText(_)
IntText(n) ==
    IF n < 10 THEN <<DigitChars[n + 1]>>
    ELSE IntText(n \div 10) \o <<DigitChars[(n % 10) + 1]>>

\* f"SELECT TOP {limit} * FROM {table_name}"
SampleQuery(table_name, limit) ==
    <<"S","E","L","E","C","T"," ","T","O","P"," ">> \o IntText(limit)
        \o <<" ","*"," ","F","R","O","M"," ">> \o table_name

\* get_sample_data
get_sample_data(table_name, limit, client) ==
    execute_sql_query_direct(SampleQuery(table_name, limit), client)

\* No call made on the SQL tools yet
NoSql ==
    [op |-> "none", query |-> <<>>, table |-> <<>>, limit |-> 0,
     client |-> "rows", done |-> FALSE, sent |-> <<>>, result |-> "none"]

----------------------------------------------------------------------------
(* The SQL suggestion: simple_mcp_tools.py *)

\* The concatenation of pieces[lo..hi], a sequence of texts
RECURSIVE Flatten(_, _, _)
Flatten(pieces, lo, hi) ==
    IF lo > hi THEN <<>>
    ELSE IF lo = hi THEN pieces[lo]
    ELSE LET mid == (lo + hi) \div 2
         IN Flatten(pieces, lo, mid) \o Flatten(pieces, mid + 1, hi)

\* separator.join(items)
Join(separator, items) ==
    Flatten([i \in 1..Len(items) |->
                IF i = 1 THEN items[i] ELSE separator \o items[i]],
            1, Len(items))

\* The places where word starts in s
Occurrences(s, word) ==
    {i \in 1..(Len(s) - Len(word) + 1) : SubSeq(s, i, i + Len(word) - 1) = word}

\* s.replace(old, new) for a word that cannot overlap itself, so that every
\* occurrence is replaced
Replace(s, old, new) ==
    LET at == Occurrences(s, old)
    IN Flatten([i \in 1..Len(s) |->
                   IF i \in at THEN new
                   ELSE IF \E k \in 1..(Len(old) - 1) : i - k \in at THEN <<>>
                   ELSE <<s[i]>>],
               1, Len(s))

SELECT == <<"S","E","L","E","C","T">>

NoFilter == <<"1","=","1">>

\* The statement suggest_query_structure builds from the parsed components
build_select(table_name, columns, where_clause, order_clause, limit_clause) ==
    LET columns_str == IF columns # <<>> THEN Join(<<","," ">>, columns) ELSE <<"*">>
        selected == SELECT \o <<" ">> \o columns_str \o <<" ","F","R","O","M"," ">> \o table_name
        filtered == IF where_clause # NoFilter
                    THEN selected \o <<" ","W","H","E","R","E"," ">> \o where_clause
                    ELSE selected
        ordered == IF order_clause # <<>>
                   THEN filtered \o <<" ">> \o order_clause
                   ELSE filtered
    IN IF limit_clause # <<>>
       THEN Replace(ordered, SELECT, SELECT \o <<" ">> \o limit_clause)
       ELSE ordered

\* What query_parser.parse_user_query does: it returns the components, it
\* returns an error, or it raises
ParseOutcomes == {"parsed", "error", "raises"}

\* suggest_query_structure: the kind of result and the suggested statement
suggest_query_structure(outcome, parsed) ==
    CASE outcome = "error" -> [kind |-> "suggestions", hasError |-> FALSE, sql |-> <<>>]
      [] outcome = "raises" -> [kind |-> "error", hasError |-> TRUE, sql |-> <<>>]
      [] OTHER ->
            [kind |-> "suggested_sql", hasError |-> FALSE,
             sql |-> build_select(parsed.table_name, parsed.columns,
                                  parsed.where_clause, parsed.order_clause,
                                  parsed.limit_clause)]

NoParsed ==
    [table_name |-> <<>>, columns |-> <<>>, where_clause |-> <<>>,
     order_clause |-> <<>>, limit_clause |-> <<>>]

\* No suggest_query_structure call made yet
NoSuggest ==
    [done |-> FALSE, outcome |-> "parsed", parsed |-> NoParsed,
     kind |-> "none", hasError |-> FALSE, sql |-> <<>>]

\* What schema_loader.get_enabled_tables does: it reports the tables or raises
SchemaOutcomes == {"reports", "raises"}

\* get_available_tables_and_columns, for tables without column metadata: the
\* kind of result, the tables with their columns, and the categories of
\* product_mapper.get_all_aliases()
get_available_tables_and_columns(outcome, enabled_tables, cfg) ==
    IF outcome = "raises"
    THEN [kind |-> "error", hasError |-> TRUE, tables |-> <<>>, alias_categories |-> {}]
    ELSE [kind |-> "success", hasError |-> FALSE,
          tables |-> [i \in DOMAIN enabled_tables |->
                        [table_name |-> enabled_tables[i].name,
                         columns |-> enabled_tables[i].columns]],
          alias_categories |-> DOMAIN get_all_aliases(cfg)]

\* No get_available_tables_and_columns call made yet
NoSchema ==
    [done |-> FALSE, outcome |-> "reports", enabled_tables |-> <<>>,
     kind |-> "none", hasError |-> FALSE, tables |-> <<>>, alias_categories |-> {}]

----------------------------------------------------------------------------
(* The parsers: ai_query_parser.py and local_ai_query_parser.py *)

\* The first place from `from` on where s holds no character of chars, or
\* the place after the end of s
FirstNotIn(s, from, chars) ==
    CHOOSE k \in from..(Len(s) + 1) :
        /\ k = Len(s) + 1 \/ s[k] \notin chars
        /\ \A j \in from..(k - 1) : s[j] \in chars

\* re.search(r'top\s+(\d+)', s): the places where the pattern matches
TopMatches(s) ==
    {i \in Occurrences(s, <<"t","o","p">>) :
        LET d == FirstNotIn(s, i + 3, Whitespace)
        IN d > i + 3 /\ d <= Len(s) /\ s[d] \in Elems(DigitChars)}

\* top_match.group(1) of the leftmost match
TopGroup(s) ==
    LET i == CHOOSE x \in TopMatches(s) : \A y \in TopMatches(s) : x <= y
        d == FirstNotIn(s, i + 3, Whitespace)
    IN SubSeq(s, d, FirstNotIn(s, d, Elems(DigitChars)) - 1)

\* A field a result dict does not hold
Absent == "absent"

\* {"error": ...}
ErrorResult(message) ==
    [hasError |-> TRUE, error |-> message, from |-> "none", table_name |-> <<>>,
     columns |-> <<>>, where_clause |-> <<>>, order_clause |-> <<>>,
     limit_clause |-> <<>>, ai_parsed |-> Absent, fallback_used |-> Absent,
     confKind |-> "missing", confidence |-> 0]

Month == <<"M","o","n","t","h">>
Product == <<"P","r","o","d","u","c","t">>
RequestCount == <<"R","e","q","u","e","s","t","C","o","u","n","t">>

FallbackKeywords == <<<<"p","r","o","d","u","c","t">>, <<"c","u","s","t","o","m","e","r">>, <<"u","s","a","g","e">>>>

\* The table selection of the fallback: the loop takes the first table when a
\* keyword occurs in the text, whatever the table; otherwise
\* list(enabled_tables.values())[0] is taken
fallback_table(query_lower, enabled_tables) ==
    LET keyword_hit == \E i \in DOMAIN FallbackKeywords :
                          Contains(query_lower, FallbackKeywords[i])
    IN IF keyword_hit THEN enabled_tables[1] ELSE enabled_tables[1]

\* A column selection that always takes the first three columns
fallback_columns_first_three(table, info) ==
    IF ~info THEN <<<<"*">>>>
    ELSE SubSeq(table.columns, 1, IF Len(table.columns) < 3 THEN Len(table.columns) ELSE 3)

\* The column selection of the fallback; info tells whether
\* schema_loader.get_table_info finds the chosen table
fallback_columns(table, info) ==
    LET preferred == SelectSeq(<<Month, Product, RequestCount>>,
                               LAMBDA col : col \in Elems(table.columns))
    IN IF ~info THEN <<<<"*">>>>
       ELSE IF preferred # <<>> THEN preferred
       ELSE SubSeq(table.columns, 1,
                   IF Len(table.columns) < 3 THEN Len(table.columns) ELSE 3)

\* The WHERE clause of the fallback
fallback_where(query_lower) ==
    IF Contains(query_lower, <<"t","h","i","s"," ","m","o","n","t","h">>)
    THEN <<"M","o","n","t","h"," ","L","I","K","E"," ","'","2","0","2","5","-","0","8","%","'">> ELSE NoFilter

\* An ORDER clause given only with a limit
fallback_order_with_limit(query_lower) ==
    IF TopMatches(query_lower) # {}
    THEN <<"O","R","D","E","R"," ","B","Y"," ","R","e","q","u","e","s","t","C","o","u","n","t"," ","D","E","S","C">> ELSE <<>>

\* The ORDER clause of the fallback
fallback_order(query_lower) ==
    IF Contains(query_lower, <<"t","o","p">>)
    THEN <<"O","R","D","E","R"," ","B","Y"," ","R","e","q","u","e","s","t","C","o","u","n","t"," ","D","E","S","C">> ELSE <<>>

\* A LIMIT clause taken from the last match of the pattern
fallback_limit_last_match(query_lower) ==
    IF TopMatches(query_lower) # {}
    THEN LET i == CHOOSE x \in TopMatches(query_lower) :
                        \A y \in TopMatches(query_lower) : x >= y
             d == FirstNotIn(query_lower, i + 3, Whitespace)
         IN <<"T","O","P"," ">> \o SubSeq(query_lower, d,
                                FirstNotIn(query_lower, d, Elems(DigitChars)) - 1)
    ELSE <<>>

\* The LIMIT clause of the fallback
fallback_limit(query_lower) ==
    IF TopMatches(query_lower) # {}
    THEN <<"T","O","P"," ">> \o TopGroup(query_lower) ELSE <<>>

\* A fallback that gives up when get_table_info finds nothing
fallback_rule_based_parsing_needs_info(user_question, enabled_tables, info) ==
    IF enabled_tables = <<>> \/ ~info THEN ErrorResult("No enabled tables found")
    ELSE [hasError |-> FALSE, error |-> "", from |-> "fallback",
          table_name |-> enabled_tables[1].name,
          columns |-> enabled_tables[1].columns,
          where_clause |-> NoFilter, order_clause |-> <<>>, limit_clause |-> <<>>,
          ai_parsed |-> "False", fallback_used |-> "True",
          confKind |-> "missing", confidence |-> 0]

\* AIQueryParser.fallback_rule_based_parsing
fallback_rule_based_parsing(user_question, enabled_tables, info) ==
    IF enabled_tables = <<>> THEN ErrorResult("No enabled tables found")
    ELSE
    LET query_lower == Lower(user_question)
        table == fallback_table(query_lower, enabled_tables)
    IN [hasError |-> FALSE, error |-> "", from |-> "fallback",
        table_name |-> table.name,
        columns |-> fallback_columns(table, info),
        where_clause |-> fallback_where(query_lower),
        order_clause |-> fallback_order(query_lower),
        limit_clause |-> fallback_limit(query_lower),
        ai_parsed |-> "False", fallback_used |-> "True",
        confKind |-> "missing", confidence |-> 0]

\* LocalAIQueryParser.fallback_parsing
fallback_parsing(user_question, enabled_tables, info) ==
    IF enabled_tables = <<>> THEN ErrorResult("No enabled tables found")
    ELSE
    LET first_table == enabled_tables[1]
    IN [hasError |-> FALSE, error |-> "", from |-> "fallback",
        table_name |-> first_table.name,
        columns |-> IF info
                    THEN SubSeq(first_table.columns, 1,
                                IF Len(first_table.columns) < 5
                                THEN Len(first_table.columns) ELSE 5)
                    ELSE <<<<"*">>>>,
        where_clause |-> NoFilter, order_clause |-> <<>>, limit_clause |-> <<>>,
        ai_parsed |-> "False", fallback_used |-> "True",
        confKind |-> "missing", confidence |-> 0]

\* What the AI backend does with one prompt: the call times out, fails in
\* transport, asyncio.run itself raises, or text comes back
AiKinds == {"timeout", "transport", "run_raises", "answer"}

\* The threshold of ai_result.get('confidence', 0) >= 0.7, in tenths
ConfidenceThreshold == 7

\* The names of the enabled tables
TableNamesOf(enabled_tables) == {enabled_tables[i].name : i \in DOMAIN enabled_tables}

\* The dict an AI answer parsed to, with the keys the parser adds
AiResult(ai, table_name, columns, where_clause) ==
    [hasError |-> ai.hasErrorKey, error |-> "", from |-> "ai",
     table_name |-> table_name, columns |-> columns,
     where_clause |-> IF where_clause = <<>> \/ Strip(where_clause) = <<>>
                      THEN NoFilter ELSE where_clause,
     order_clause |-> <<>>, limit_clause |-> <<>>,
     ai_parsed |-> "True", fallback_used |-> Absent,
     confKind |-> ai.confKind, confidence |-> ai.confidence]

\* AIQueryParser.parse_with_ai, called with use_ai set
AIQueryParser_parse_with_ai(ai, enabled_tables) ==
    CASE ai.kind \in {"timeout", "transport"} -> ErrorResult("AI parsing failed")
      [] ai.json = "invalid" -> ErrorResult("AI returned invalid JSON")
      [] ai.json = "other" -> ErrorResult("AI parsing failed")
      [] ai.fields = "partial" -> ErrorResult("AI response missing required field")
      [] ai.table_name \notin TableNamesOf(enabled_tables) ->
            ErrorResult("AI suggested invalid table")
      [] OTHER -> AiResult(ai, ai.table_name, ai.columns, ai.where_clause)

\* LocalAIQueryParser.parse_text_response
parse_text_response(ai, enabled_tables) ==
    IF ai.namesTable /\ enabled_tables # <<>>
    THEN [table_name |-> enabled_tables[1].name,
          columns |-> <<Month, Product, RequestCount>>]
    ELSE IF enabled_tables # <<>>
    THEN [table_name |-> enabled_tables[1].name,
          columns |-> SubSeq(enabled_tables[1].columns, 1,
                             IF Len(enabled_tables[1].columns) < 3
                             THEN Len(enabled_tables[1].columns) ELSE 3)]
    ELSE [table_name |-> <<>>, columns |-> <<>>]

\* LocalAIQueryParser.validate_and_clean_result
validate_and_clean_result(ai, table_name, columns, where_clause, enabled_tables) ==
    LET table_found == table_name \in TableNamesOf(enabled_tables)
        replaced == ~table_found /\ enabled_tables # <<>>
    IN AiResult(ai,
                IF replaced THEN enabled_tables[1].name ELSE table_name,
                IF replaced /\ columns = <<>>
                THEN SubSeq(enabled_tables[1].columns, 1,
                            IF Len(enabled_tables[1].columns) < 3
                            THEN Len(enabled_tables[1].columns) ELSE 3)
                ELSE columns,
                where_clause)

\* LocalAIQueryParser.parse_with_ai
LocalAIQueryParser_parse_with_ai(ai, enabled_tables) ==
    CASE ai.kind \in {"timeout", "transport"} -> ErrorResult("AI parsing failed")
      [] ai.json = "other" -> ErrorResult("AI parsing failed")
      [] ai.json = "invalid" ->
            LET parsed == parse_text_response(ai, enabled_tables)
            IN validate_and_clean_result(ai, parsed.table_name, parsed.columns,
                                         NoFilter, enabled_tables)
      [] OTHER ->
            validate_and_clean_result(ai, ai.table_name, ai.columns,
                IF ai.fields = "partial" THEN <<>> ELSE ai.where_clause,
                enabled_tables)

\* AIQueryParser.parse_user_query
AIQueryParser_parse_user_query(use_ai, ai, user_question, enabled_tables, info) ==
    LET fallback == [result |-> fallback_rule_based_parsing(user_question,
                                                            enabled_tables, info),
                     fallback_ran |-> TRUE, raised |-> FALSE]
    IN IF ~use_ai THEN fallback
       ELSE IF ai.kind = "run_raises" THEN fallback
       ELSE LET ai_result == AIQueryParser_parse_with_ai(ai, enabled_tables)
            IN IF ai_result.hasError THEN fallback
               \* a confidence that is no number raises in >=, which is caught
               ELSE IF ai_result.confKind = "text" THEN fallback
               ELSE IF (IF ai_result.confKind = "missing" THEN 0
                        ELSE ai_result.confidence) >= ConfidenceThreshold
               THEN [result |-> ai_result, fallback_ran |-> FALSE, raised |-> FALSE]
               ELSE fallback

\* LocalAIQueryParser.parse_user_query
LocalAIQueryParser_parse_user_query(ai, user_question, enabled_tables, info) ==
    LET fallback == [result |-> fallback_parsing(user_question, enabled_tables, info),
                     fallback_ran |-> TRUE, raised |-> FALSE]
    IN IF ai.kind = "run_raises" THEN fallback
       ELSE LET result == LocalAIQueryParser_parse_with_ai(ai, enabled_tables)
            IN IF result.hasError THEN fallback
               ELSE [result |-> result, fallback_ran |-> FALSE, raised |-> FALSE]

\* No parse request was made
NoAi ==
    [kind |-> "answer", json |-> "object", fields |-> "complete", namesTable |-> FALSE,
     table_name |-> <<>>, columns |-> <<>>, where_clause |-> <<>>,
     hasErrorKey |-> FALSE, confKind |-> "missing", confidence |-> 0]

NoParse ==
    [done |-> FALSE, parser |-> "none", use_ai |-> FALSE, user_question |-> <<>>,
     ai |-> NoAi, enabled_tables |-> <<>>, info |-> FALSE,
     now |-> [year |-> 2025, month |-> 8],
     result |-> ErrorResult(""), fallback_ran |-> FALSE, raised |-> FALSE]

----------------------------------------------------------------------------
(* Reading the answer of the local model: local_ai_query_parser.py *)

\* A value json.loads returns: a str or a dict of such values
JsonStr(text) == [kind |-> "str", text |-> text, members |-> EmptyMap]
JsonDict(members) == [kind |-> "dict", text |-> <<>>, members |-> members]

\* A text json.loads rejects
JsonFails == [ok |-> FALSE, next |-> 0, val |-> JsonStr(<<>>)]

\* The decoder at a string: s[i] is the opening quote
ScanString(s, i) ==
    LET close == {j \in (i + 1)..Len(s) : s[j] = "\""}
    IN IF close = {} THEN JsonFails
       ELSE LET j == CHOOSE x \in close : \A y \in close : x <= y
            IN [ok |-> TRUE, next |-> j + 1, val |-> JsonStr(SubSeq(s, i + 1, j - 1))]

\* The decoder at a value and inside an object, for texts made of objects,
\* strings and white space
RECURSIVE ScanValue(_, _), ScanMembers(_, _, _)
ScanValue(s, i) ==
    IF i > Len(s) THEN JsonFails
    ELSE IF s[i] = "\"" THEN ScanString(s, i)
    ELSE IF s[i] = "{"
         THEN LET k == FirstNotIn(s, i + 1, Whitespace)
              IN IF k <= Len(s) /\ s[k] = "}"
                 THEN [ok |-> TRUE, next |-> k + 1, val |-> JsonDict(EmptyMap)]
                 ELSE ScanMembers(s, k, EmptyMap)
    ELSE JsonFails

\* One "key": value pair at k, then a comma and more pairs, or the closing brace
ScanMembers(s, k, members) ==
    IF k > Len(s) \/ s[k] # "\"" THEN JsonFails
    ELSE LET key == ScanString(s, k)
             colon == IF key.ok THEN FirstNotIn(s, key.next, Whitespace) ELSE 0
             value == IF key.ok /\ colon <= Len(s) /\ s[colon] = ":"
                      THEN ScanValue(s, FirstNotIn(s, colon + 1, Whitespace))
                      ELSE JsonFails
             end == IF value.ok THEN FirstNotIn(s, value.next, Whitespace) ELSE 0
             more == (key.val.text :> value.val) @@ members
         IN IF ~value.ok \/ end > Len(s) THEN JsonFails
            ELSE IF s[end] = "}"
                 THEN [ok |-> TRUE, next |-> end + 1, val |-> JsonDict(more)]
            ELSE IF s[end] = ","
                 THEN ScanMembers(s, FirstNotIn(s, end + 1, Whitespace), more)
            ELSE JsonFails

\* json.loads(s): the value, when the whole of s is one value
json_loads(s) ==
    LET value == ScanValue(s, FirstNotIn(s, 1, Whitespace))
    IN IF value.ok /\ FirstNotIn(s, value.next, Whitespace) = Len(s) + 1
       THEN value ELSE JsonFails

\* re.findall(r'\{[^}]*\}', response, re.DOTALL) from place p on: each match
\* runs from a "{" to the first "}" after it. re.findall(r'\{.*?\}', ...), the
\* second pattern, stops at the first "}" too and finds the same matches
RECURSIVE BraceMatches(_, _)
BraceMatches(response, p) ==
    LET opens == {i \in p..Len(response) : response[i] = "{"}
    IN IF opens = {} THEN <<>>
       ELSE LET i == CHOOSE x \in opens : \A y \in opens : x <= y
                closes == {j \in (i + 1)..Len(response) : response[j] = "}"}
            IN IF closes = {} THEN <<>>
               ELSE LET j == CHOOSE x \in closes : \A y \in closes : x <= y
                    IN <<SubSeq(response, i, j)>> \o BraceMatches(response, j + 1)

\* extract_json_from_response: the first match of the two patterns that
\* json.loads accepts, else the whole response, else parse_text_response
extract_json_from_response(response) ==
    LET matches == BraceMatches(response, 1) \o BraceMatches(response, 1)
        good == {i \in DOMAIN matches : json_loads(matches[i]).ok}
    IN IF good # {}
       THEN [kind |-> "json",
             value |-> json_loads(matches[CHOOSE x \in good : \A y \in good : x <= y]).val]
       ELSE IF json_loads(Strip(response)).ok
       THEN [kind |-> "json", value |-> json_loads(Strip(response)).val]
       ELSE [kind |-> "text", value |-> JsonStr(<<>>)]

\* No extract_json_from_response call made yet
NoExtract == [done |-> FALSE, response |-> <<>>, kind |-> "none", value |-> JsonStr(<<>>)]

----------------------------------------------------------------------------
(* Inputs of the store *)

\* The number of calls made on the store in one run of the persistence model
MaxCalls == 3

JavaScript == <<"J","a","v","a","S","c","r","i","p","t">>
PythonSDK == <<"P","y","t","h","o","n","-","S","D","K">>
Windows == <<"W","i","n","d","o","w","s">>

\* The target lists a caller passes to add_alias
TargetLists == {<<JavaScript>>, <<PythonSDK>>, <<JavaScript, PythonSDK>>}

\* The alias terms a caller passes to add_alias, in the caller's spelling
AliasInputs == {<<"j","s">>, <<"J","s">>}

CategoryInputs == {"product_aliases", "custom_aliases"}

FullMeta ==
    [f \in {"version", "last_updated", "description"} |->
        CASE f = "version" -> "1.0"
          [] f = "last_updated" -> "2025-01-01"
          [] OTHER -> "aliases"]

\* A complete configuration document, with metadata
DocFull ==
    JsonDump([cats |-> [c \in {"product_aliases", "os_aliases"} |->
                          IF c = "product_aliases"
                          THEN [a \in {<<"j","s">>, <<"p","y">>} |->
                                  IF a = <<"j","s">> THEN <<JavaScript>> ELSE <<PythonSDK>>]
                          ELSE [a \in {<<"w","i","n">>} |-> <<Windows>>]],
              hasMeta |-> TRUE,
              meta |-> FullMeta])

\* A configuration document with one category and no metadata
DocBare ==
    JsonDump([cats |-> [c \in {"product_aliases"} |->
                          [a \in {<<"j","s">>} |-> <<JavaScript, PythonSDK>>]],
              hasMeta |-> FALSE,
              meta |-> EmptyMap])

InitialSources == {DocFull, DocBare, AbsentSource, PartialSource}

NoOp ==
    [op |-> "init", save |-> FALSE, env |-> "ok", caught |-> NoError,
     raised |-> FALSE, reported |-> "", overwrote |-> FALSE,
     afterSave |-> FALSE]

----------------------------------------------------------------------------
(* The store as a state machine *)

\* UniversalAliasMapper.__init__ on a source
Constructed(src) ==
    LET l == load_aliases_config(src)
    IN [config |-> l.config,
        index |-> build_reverse_mappings(l.config, EmptyMap),
        caught |-> l.caught, raised |-> l.raised]

\* No call made yet on the tools beside the matcher and the SQL guard
\* No add_alias call running beside a reader
NoRace ==
    [pc |-> "idle", category |-> "", alias |-> <<>>, targets |-> <<>>, i |-> 0,
     before |-> [config |-> FallbackConfig, index |-> EmptyMap],
     read |-> FALSE, seen |-> ReaderView(FallbackConfig, EmptyMap, <<>>)]

ToolsIdle ==
    /\ validation = NoValidation /\ suggest = NoSuggest /\ parse = NoParse
    /\ schema = NoSchema /\ race = NoRace /\ extract = NoExtract

StoreInit ==
    \E src \in InitialSources :
        /\ source = src
        /\ aliases_config = Constructed(src).config
        /\ product_to_aliases = Constructed(src).index
        /\ lastOp = NoOp
        /\ calls = 0
        /\ match = NoMatch
        /\ sql = NoSql
        /\ ToolsIdle

\* Whether add_alias replaces an entry that held other targets
Overwrites(cfg, category, alias, targets) ==
    /\ Lower(alias) \in DOMAIN get_aliases_for_category(cfg, category)
    /\ get_aliases_for_category(cfg, category)[Lower(alias)] # targets

\* mapper.add_alias(category, alias, targets, save_to_file)
AddAlias(category, alias, targets, save, env) ==
    LET r == add_alias(aliases_config, product_to_aliases, source,
                       category, alias, targets, save, env)
    IN /\ aliases_config' = r.config
       /\ product_to_aliases' = r.index
       /\ source' = r.source
       /\ lastOp' = [NoOp EXCEPT !.op = "add_alias", !.save = save, !.env = env,
                                 !.caught = r.caught, !.raised = r.raised,
                                 !.overwrote = Overwrites(aliases_config, category,
                                                          alias, targets)]

\* AliasManager.add_alias(category, alias, targets, save)
ManagerAddAlias(category, alias, targets, save, env) ==
    LET r == manager_add_alias(aliases_config, product_to_aliases, source,
                               category, alias, targets, save, env)
    IN /\ aliases_config' = r.config
       /\ product_to_aliases' = r.index
       /\ source' = r.source
       /\ lastOp' = [NoOp EXCEPT !.op = "manager_add_alias", !.save = save,
                                 !.env = env, !.caught = r.caught,
                                 !.raised = r.raised, !.reported = r.reported,
                                 !.overwrote = Overwrites(aliases_config, category,
                                                          alias, targets)]

\* mapper.save_config()
SaveConfig(env) ==
    LET r == save_config(aliases_config, source, env)
    IN /\ aliases_config' = r.config
       /\ source' = r.source
       /\ UNCHANGED product_to_aliases
       /\ lastOp' = [NoOp EXCEPT !.op = "save_config", !.save = TRUE, !.env = env,
                                 !.caught = r.caught, !.raised = r.raised]

\* A fresh UniversalAliasMapper(config_path) on the same source
Load ==
    LET r == Constructed(source)
    IN /\ aliases_config' = r.config
       /\ product_to_aliases' = r.index
       /\ UNCHANGED source
       /\ lastOp' = [NoOp EXCEPT !.op = "load", !.caught = r.caught,
                                 !.raised = r.raised,
                                 !.afterSave = lastOp.save /\ lastOp.env = "ok"]

\* The store in memory: add_alias without persistence, and reloads
MemAddAlias ==
    /\ \E c \in CategoryInputs, a \in AliasInputs, t \in TargetLists :
            AddAlias(c, a, t, FALSE, "ok")
    /\ UNCHANGED <<calls, match, sql, toolVars>>

MemLoad == Load /\ UNCHANGED <<calls, match, sql, toolVars>>

StoreNext == MemAddAlias \/ MemLoad

Spec == StoreInit /\ [][StoreNext]_vars

\* The store with its source: at most MaxCalls calls, each write going any way
Counted == calls < MaxCalls /\ calls' = calls + 1 /\ UNCHANGED <<match, sql, toolVars>>

\* The calls of the persistence model pass these
PersistAlias == <<"J","s">>

PersistTargetLists == {<<PythonSDK>>, <<JavaScript, PythonSDK>>}

PersistAddAlias ==
    /\ Counted
    /\ \E c \in CategoryInputs, t \in PersistTargetLists :
            \/ AddAlias(c, PersistAlias, t, FALSE, "ok")
            \/ \E e \in WriteOutcomes : AddAlias(c, PersistAlias, t, TRUE, e)

PersistManagerAddAlias ==
    /\ Counted
    /\ \E c \in CategoryInputs, t \in PersistTargetLists :
            \/ ManagerAddAlias(c, PersistAlias, t, FALSE, "ok")
            \/ \E e \in WriteOutcomes : ManagerAddAlias(c, PersistAlias, t, TRUE, e)

PersistSaveConfig == Counted /\ \E e \in WriteOutcomes : SaveConfig(e)

PersistLoad == Counted /\ Load

PersistNext ==
    \/ PersistAddAlias
    \/ PersistManagerAddAlias
    \/ PersistSaveConfig
    \/ PersistLoad

SpecPersist == StoreInit /\ [][PersistNext]_vars

----------------------------------------------------------------------------
(* Inputs of the matcher *)

\* The number of fragments a query text is put together from
MaxFrags == 2

JavaFluent == <<"J","a","v","a"," ","F","l","u","e","n","t">>

Fragments ==
    {<<"j","s">>, <<"j","a","v","a">>, <<"s","c","r","i","p","t">>, <<"P","y","t","h","o","n","-","S","D","K">>, <<" ","u","s","a","g","e">>, <<"n","e","t">>, <<"i","n","t","e","r">>, <<"W","i","n">>}

\* The texts put together from at most n fragments
RECURSIVE FragTexts(_)
FragTexts(n) ==
    IF n = 0 THEN {<<>>}
    ELSE LET shorter == FragTexts(n - 1)
         IN shorter \cup {t \o f : t \in shorter, f \in Fragments}

ShowMeJsAndPython == <<"s","h","o","w"," ","m","e"," ","j","s"," ","a","n","d"," ","p","y","t","h","o","n"," ","u","s","a","g","e">>

PythonSdkUsage == <<"P","y","t","h","o","n","-","S","D","K"," ","u","s","a","g","e">>

ExampleTexts == {ShowMeJsAndPython, PythonSdkUsage, <<"P","y","t","h","o","n","-","S","D","K"," ","j","s">>}

\* Every alias of a configuration, to be used as a query text
AliasTexts(cfg) == UNION {DOMAIN cfg.cats[c] : c \in DOMAIN cfg.cats}

EnhancedCategories ==
    {"product", "os", "http_method", "provider", "resource", "time", "quantity",
     "nosuch"}

EnhancedAliasTexts == UNION {DOMAIN EnhancedTable(c) : c \in EnhancedCategories}

MatchCategories == {"product_aliases", "os_aliases", "missing_aliases"}

AvailableValues == {NotGiven, Given(<<JavaScript>>), Given(<<PythonSDK, Windows>>)}

AvailableProducts ==
    {<<JavaScript, PythonSDK, JavaFluent>>, <<PythonSDK>>,
     <<PythonSDK, JavaScript>>, <<>>}

\* A configuration document holding the product and OS tables
DocEnhanced ==
    JsonDump([cats |-> [c \in {"product_aliases", "os_aliases"} |->
                          IF c = "product_aliases" THEN Enhanced_product_aliases
                          ELSE Enhanced_os_aliases],
              hasMeta |-> TRUE,
              meta |-> FullMeta])

MatchSources == {DocEnhanced, DocFull}

----------------------------------------------------------------------------
(* The matcher as a state machine: a call is drawn, then answered *)

\* The calls a client makes on the matchers of a mapper holding cfg
MatchCalls(cfg) ==
    {[op |-> "find_matches_by_category", text |-> text, category |-> category,
      available |-> available, done |-> FALSE, result |-> {}] :
        text \in FragTexts(MaxFrags) \cup ExampleTexts \cup AliasTexts(cfg),
        category \in MatchCategories, available \in AvailableValues}
    \cup
    {[op |-> "find_products_by_query", text |-> text, category |-> "product_aliases",
      available |-> Given(products), done |-> FALSE, result |-> {}] :
        text \in FragTexts(MaxFrags) \cup ExampleTexts,
        products \in AvailableProducts}
    \cup
    {[op |-> "find_matches", text |-> text, category |-> category,
      available |-> NotGiven, done |-> FALSE, result |-> {}] :
        text \in FragTexts(MaxFrags) \cup ExampleTexts \cup EnhancedAliasTexts,
        category \in EnhancedCategories}

MatchInit ==
    \E src \in MatchSources :
        /\ source = src
        /\ aliases_config = Constructed(src).config
        /\ product_to_aliases = Constructed(src).index
        /\ lastOp = NoOp
        /\ calls = 0
        /\ match \in MatchCalls(Constructed(src).config)
        /\ sql = NoSql
        /\ ToolsIdle

\* mapper.find_matches_by_category(query_text, category, available_values)
FindMatchesByCategory ==
    /\ match.op = "find_matches_by_category" /\ ~match.done
    /\ match' = [match EXCEPT !.done = TRUE,
                    !.result = find_matches_by_category(aliases_config, match.text,
                                    match.category, match.available)]
    /\ UNCHANGED <<storeVars, sql, toolVars>>

\* mapper.find_products_by_query(query_text, available_products)
FindProductsByQuery ==
    /\ match.op = "find_products_by_query" /\ ~match.done
    /\ match' = [match EXCEPT !.done = TRUE,
                    !.result = find_products_by_query(aliases_config, match.text,
                                    match.available.values)]
    /\ UNCHANGED <<storeVars, sql, toolVars>>

\* EnhancedAliasMapper().find_matches(text, category)
EnhancedFindMatches ==
    /\ match.op = "find_matches" /\ ~match.done
    /\ match' = [match EXCEPT !.done = TRUE,
                    !.result = enhanced_find_matches(match.text, match.category)]
    /\ UNCHANGED <<storeVars, sql, toolVars>>

MatchNext ==
    \/ FindMatchesByCategory
    \/ FindProductsByQuery
    \/ EnhancedFindMatches

SpecMatch == MatchInit /\ [][MatchNext]_vars

\* The matcher of a mapper constructed on a source that cannot be parsed
UnparsedInit ==
    LET r == Constructed(PartialSource)
    IN /\ source = PartialSource
       /\ aliases_config = r.config
       /\ product_to_aliases = r.index
       /\ lastOp = [NoOp EXCEPT !.op = "load", !.caught = r.caught,
                                 !.raised = r.raised]
       /\ calls = 0
       /\ match \in MatchCalls(r.config)
       /\ sql = NoSql
       /\ ToolsIdle

SpecUnparsed == UnparsedInit /\ [][MatchNext]_vars

----------------------------------------------------------------------------
(* Inputs of the SQL guard *)

\* The number of fragments a query text is put together from
MaxSqlFrags == 3

DropTableX == <<"D","R","O","P"," ","T","A","B","L","E"," ","X">>

SqlFragments ==
    {<<"s","e","l","e","c","t">>, <<"S","E","L","E","C","T">>, <<"S","e","l","e","c","t">>,
     <<" ">>, <<"\n">>, <<" ","*"," ","f","r","o","m"," ","t">>,
     <<"d","r","o","p">>, <<"D","r","o","p">>, <<";"," ","U","P","D","A","T","E"," ","t">>,
     <<"e","d">>}

\* The query texts put together from at most n fragments
RECURSIVE SqlTexts(_)
SqlTexts(n) ==
    IF n = 0 THEN {<<>>}
    ELSE LET shorter == SqlTexts(n - 1)
         IN shorter \cup {t \o f : t \in shorter, f \in SqlFragments}

\* The table names and limits passed to get_sample_data
TableNames ==
    {<<"U","s","a","g","e">>, <<"U","p","d","a","t","e","s">>,
     <<"t",";"," ","D","R","O","P"," ","T","A","B","L","E"," ","t">>, <<>>}

Limits == {0, 5, 10, 120}

----------------------------------------------------------------------------
(* The SQL guard as a state machine: a call is drawn, then answered *)

SqlCalls ==
    {[NoSql EXCEPT !.op = "execute_sql_query_direct", !.query = q, !.client = c] :
        q \in SqlTexts(MaxSqlFrags) \cup {DropTableX}, c \in ClientOutcomes}
    \cup
    {[NoSql EXCEPT !.op = "get_sample_data", !.table = t, !.limit = l, !.client = c] :
        t \in TableNames, l \in Limits, c \in ClientOutcomes}

SqlInit ==
    /\ source = AbsentSource
    /\ aliases_config = Constructed(AbsentSource).config
    /\ product_to_aliases = Constructed(AbsentSource).index
    /\ lastOp = NoOp
    /\ calls = 0
    /\ match = NoMatch
    /\ sql \in SqlCalls
    /\ ToolsIdle

\* tools.execute_sql_query_direct(sql_query)
ExecuteSqlQueryDirect ==
    /\ sql.op = "execute_sql_query_direct" /\ ~sql.done
    /\ LET r == execute_sql_query_direct(sql.query, sql.client)
       IN sql' = [sql EXCEPT !.done = TRUE, !.sent = r.sent, !.result = r.result]
    /\ UNCHANGED <<storeVars, match, toolVars>>

\* tools.get_sample_data(table_name, limit)
GetSampleData ==
    /\ sql.op = "get_sample_data" /\ ~sql.done
    /\ LET r == get_sample_data(sql.table, sql.limit, sql.client)
       IN sql' = [sql EXCEPT !.done = TRUE, !.query = SampleQuery(sql.table, sql.limit),
                              !.sent = r.sent, !.result = r.result]
    /\ UNCHANGED <<storeVars, match, toolVars>>

SqlNext == ExecuteSqlQueryDirect \/ GetSampleData

SpecSql == SqlInit /\ [][SqlNext]_vars

----------------------------------------------------------------------------
(* validate_config as a state machine: aliases are added, the result checked *)

\* A document with an empty category, an alias without targets and
\* metadata that lacks a field
DocFlawed ==
    JsonDump([cats |-> [c \in {"product_aliases", "os_aliases"} |->
                          IF c = "product_aliases"
                          THEN (<<"j","s">> :> <<JavaScript>>) @@ (<<"p","y">> :> <<>>)
                          ELSE EmptyMap],
              hasMeta |-> TRUE,
              meta |-> [f \in {"version", "description"} |-> "1.0"]])

ValidateSources == {DocFull, DocBare, DocFlawed, AbsentSource}

ValidateInit ==
    \E src \in ValidateSources :
        /\ source = src
        /\ aliases_config = Constructed(src).config
        /\ product_to_aliases = Constructed(src).index
        /\ lastOp = NoOp
        /\ calls = 0
        /\ match = NoMatch
        /\ sql = NoSql
        /\ ToolsIdle

\* manager.add_alias(category, alias, targets), kept in memory
ValidateAddAlias ==
    /\ \E c \in CategoryInputs, a \in AliasInputs, t \in TargetLists \cup {<<>>} :
            ManagerAddAlias(c, a, t, FALSE, "ok")
    /\ validation' = NoValidation
    /\ UNCHANGED <<calls, match, sql, suggest, parse, schema, race, extract>>

\* manager.validate_config()
ValidateConfig ==
    /\ LET r == validate_config(aliases_config)
       IN /\ aliases_config' = r.config
          /\ validation' = [done |-> TRUE, printed |-> r.printed,
                            returned |-> r.returned, raised |-> r.raised]
    /\ lastOp' = [NoOp EXCEPT !.op = "validate_config"]
    /\ UNCHANGED <<product_to_aliases, source, calls, match, sql, suggest, parse, schema, race, extract>>

ValidateNext == ValidateAddAlias \/ ValidateConfig

SpecValidate == ValidateInit /\ [][ValidateNext]_vars

----------------------------------------------------------------------------
(* The SQL suggestion as a state machine: a call is drawn, then answered *)

TableT == <<"T">>

SubqueryFilter == <<"X"," ","I","N"," ","(","S","E","L","E","C","T"," ","Y"," ","F","R","O","M"," ","U",")">>

ParsedTables == {TableT, <<"U","s","a","g","e">>}

ParsedColumns == {<<<<"A">>, <<"B">>>>, <<<<"*">>>>, <<<<"A">>>>, <<>>}

ParsedWheres == {NoFilter, <<>>, <<"X"," ",">"," ","1">>, SubqueryFilter}

OrderByXDesc == <<"O","R","D","E","R"," ","B","Y"," ","X"," ","D","E","S","C">>

ParsedOrders == {<<>>, OrderByXDesc}

Top5 == <<"T","O","P"," ","5">>

ParsedLimits == {<<>>, Top5}

SuggestCalls ==
    {[NoSuggest EXCEPT !.outcome = "parsed",
                       !.parsed = [table_name |-> t, columns |-> c, where_clause |-> w,
                                   order_clause |-> o, limit_clause |-> l]] :
        t \in ParsedTables, c \in ParsedColumns, w \in ParsedWheres,
        o \in ParsedOrders, l \in ParsedLimits}
    \cup
    {[NoSuggest EXCEPT !.outcome = x] : x \in {"error", "raises"}}

SuggestInit ==
    /\ source = AbsentSource
    /\ aliases_config = Constructed(AbsentSource).config
    /\ product_to_aliases = Constructed(AbsentSource).index
    /\ lastOp = NoOp
    /\ calls = 0
    /\ match = NoMatch
    /\ sql = NoSql
    /\ validation = NoValidation
    /\ suggest \in SuggestCalls
    /\ parse = NoParse
    /\ schema = NoSchema
    /\ race = NoRace
    /\ extract = NoExtract

\* tools.suggest_query_structure(user_intent)
SuggestQueryStructure ==
    /\ ~suggest.done
    /\ LET r == suggest_query_structure(suggest.outcome, suggest.parsed)
       IN suggest' = [suggest EXCEPT !.done = TRUE, !.kind = r.kind,
                                     !.hasError = r.hasError, !.sql = r.sql]
    /\ UNCHANGED <<storeVars, match, sql, validation, parse, schema, race, extract>>

SuggestNext == SuggestQueryStructure

SpecSuggest == SuggestInit /\ [][SuggestNext]_vars

----------------------------------------------------------------------------
(* The parse request as a state machine: a request is drawn, then answered *)

Usage == <<"P","r","o","d","u","c","t","U","s","a","g","e">>
Customers == <<"C","u","s","t","o","m","e","r","s">>
Nope == <<"N","o","p","e">>

UsageTable == [name |-> Usage, columns |-> <<Month, Product, RequestCount, <<"O","S">>>>]
CustomersTable == [name |-> Customers,
                   columns |-> <<<<"I","d">>, <<"N","a","m","e">>, <<"O","S">>, Month>>]
BareTable == [name |-> Nope, columns |-> <<>>]
Orders == <<"O","r","d","e","r","s">>
OrdersTable == [name |-> Orders, columns |-> <<<<"I","d">>, Product>>]

\* What schema_loader.get_enabled_tables() reports, in its order
EnabledTableLists ==
    {<<>>, <<UsageTable>>, <<CustomersTable, UsageTable>>, <<BareTable>>,
     <<OrdersTable, UsageTable>>}

Questions ==
    {<<"T","o","p"," ","5"," ","p","r","o","d","u","c","t","s"," ","t","h","i","s"," ","m","o","n","t","h">>,
     <<"s","h","o","w"," ","u","s","a","g","e">>,
     <<"t","o","p"," "," ","1","0"," ","c","u","s","t","o","m","e","r","s">>,
     <<>>,
     <<"l","a","p","t","o","p"," ","u","s","a","g","e">>,
     <<"t","o","p"," ","c","u","s","t","o","m","e","r","s">>,
     <<"t","o","p","1","0"," ","p","r","o","d","u","c","t","s">>,
     <<"t","o","p"," ","0","0","7"," ","o","f"," ","t","o","p"," ","5">>}

\* The dates a request is made on
Dates == {[year |-> 2025, month |-> 8], [year |-> 2026, month |-> 11]}

\* The confidences an answer carries, in tenths
Confidences ==
    {[confKind |-> "missing", confidence |-> 0], [confKind |-> "text", confidence |-> 0]}
        \cup {[confKind |-> "number", confidence |-> c] : c \in {4, 6, 7, 9, 10}}

AiResponses ==
    {[NoAi EXCEPT !.kind = k] : k \in {"timeout", "transport", "run_raises"}}
        \cup {[NoAi EXCEPT !.json = "other"]}
        \cup {[NoAi EXCEPT !.json = "invalid", !.namesTable = n] : n \in BOOLEAN}
        \cup {[NoAi EXCEPT !.fields = f, !.table_name = t, !.columns = <<Month>>,
                           !.where_clause = IF f = "partial" THEN <<>> ELSE <<"X"," ",">"," ","1">>,
                           !.hasErrorKey = h, !.confKind = c.confKind,
                           !.confidence = c.confidence] :
                f \in {"complete", "partial"}, t \in {Usage, Customers},
                h \in BOOLEAN, c \in Confidences}

ParseCalls ==
    {[NoParse EXCEPT !.parser = p.parser, !.use_ai = p.use_ai, !.user_question = q,
                     !.ai = ai, !.enabled_tables = t, !.info = i, !.now = n] :
        p \in {[parser |-> "cloud", use_ai |-> TRUE], [parser |-> "cloud", use_ai |-> FALSE],
               [parser |-> "local", use_ai |-> TRUE]},
        q \in Questions, ai \in AiResponses, t \in EnabledTableLists, i \in BOOLEAN,
        n \in Dates}

ParseInit ==
    /\ source = AbsentSource
    /\ aliases_config = Constructed(AbsentSource).config
    /\ product_to_aliases = Constructed(AbsentSource).index
    /\ lastOp = NoOp
    /\ calls = 0
    /\ match = NoMatch
    /\ sql = NoSql
    /\ validation = NoValidation
    /\ suggest = NoSuggest
    /\ parse \in ParseCalls
    /\ schema = NoSchema
    /\ race = NoRace
    /\ extract = NoExtract

\* AIQueryParser(schema_loader, ai_config).parse_user_query(user_question)
CloudParseUserQuery ==
    /\ ~parse.done
    /\ parse.parser = "cloud"
    /\ LET r == AIQueryParser_parse_user_query(parse.use_ai, parse.ai, parse.user_question,
                                                parse.enabled_tables, parse.info)
       IN parse' = [parse EXCEPT !.done = TRUE, !.result = r.result,
                                 !.fallback_ran = r.fallback_ran, !.raised = r.raised]
    /\ UNCHANGED <<storeVars, match, sql, validation, suggest, schema, race, extract>>

\* LocalAIQueryParser(schema_loader).parse_user_query(user_question)
LocalParseUserQuery ==
    /\ ~parse.done
    /\ parse.parser = "local"
    /\ LET r == LocalAIQueryParser_parse_user_query(parse.ai, parse.user_question,
                                                     parse.enabled_tables, parse.info)
       IN parse' = [parse EXCEPT !.done = TRUE, !.result = r.result,
                                 !.fallback_ran = r.fallback_ran, !.raised = r.raised]
    /\ UNCHANGED <<storeVars, match, sql, validation, suggest, schema, race, extract>>

ParseNext == CloudParseUserQuery \/ LocalParseUserQuery

SpecParse == ParseInit /\ [][ParseNext]_vars

----------------------------------------------------------------------------
(* The tools of simple_mcp_tools.py as a state machine: one call is drawn,
   then answered *)

SchemaCalls ==
    {[NoSchema EXCEPT !.outcome = "raises"]}
        \cup {[NoSchema EXCEPT !.enabled_tables = t] : t \in EnabledTableLists}

ToolsInit ==
    /\ \E src \in {AbsentSource, DocFull} :
            /\ source = src
            /\ aliases_config = Constructed(src).config
            /\ product_to_aliases = Constructed(src).index
    /\ lastOp = NoOp
    /\ calls = 0
    /\ match = NoMatch
    /\ validation = NoValidation
    /\ parse = NoParse
    /\ race = NoRace
    /\ extract = NoExtract
    /\ \/ sql \in SqlCalls /\ suggest = NoSuggest /\ schema = NoSchema
       \/ sql = NoSql /\ suggest \in SuggestCalls /\ schema = NoSchema
       \/ sql = NoSql /\ suggest = NoSuggest /\ schema \in SchemaCalls

\* tools.get_available_tables_and_columns()
GetAvailableTablesAndColumns ==
    /\ ~schema.done
    /\ sql = NoSql /\ suggest = NoSuggest
    /\ LET r == get_available_tables_and_columns(schema.outcome, schema.enabled_tables,
                                                  aliases_config)
       IN schema' = [schema EXCEPT !.done = TRUE, !.kind = r.kind,
                                   !.hasError = r.hasError, !.tables = r.tables,
                                   !.alias_categories = r.alias_categories]
    /\ UNCHANGED <<storeVars, match, sql, validation, suggest, parse, race, extract>>

\* The suggest_query_structure call that was drawn
ToolsSuggestQueryStructure ==
    /\ suggest # NoSuggest
    /\ SuggestQueryStructure

ToolsNext ==
    \/ ExecuteSqlQueryDirect
    \/ GetSampleData
    \/ ToolsSuggestQueryStructure
    \/ GetAvailableTablesAndColumns

SpecTools == ToolsInit /\ [][ToolsNext]_vars

----------------------------------------------------------------------------
(* add_alias beside a reader: the statements of one add_alias call run one at
   a time, and a reader thread may run between any two of them *)

RaceSources == {DocFull, DocBare, AbsentSource}

RaceInit ==
    /\ \E src \in RaceSources :
            /\ source = src
            /\ aliases_config = Constructed(src).config
            /\ product_to_aliases = Constructed(src).index
            /\ \E c \in CategoryInputs, a \in AliasInputs, t \in TargetLists :
                    race = [NoRace EXCEPT !.pc = "category", !.category = c, !.alias = a,
                                          !.targets = t,
                                          !.before = [config |-> Constructed(src).config,
                                                      index |-> Constructed(src).index]]
    /\ lastOp = NoOp
    /\ calls = 0
    /\ match = NoMatch
    /\ sql = NoSql
    /\ validation = NoValidation /\ suggest = NoSuggest /\ parse = NoParse
    /\ schema = NoSchema /\ extract = NoExtract

\* product_aliases.py:168-169
WriterEnsureCategory ==
    /\ race.pc = "category"
    /\ aliases_config' = add_alias_ensure_category(aliases_config, race.category)
    /\ race' = [race EXCEPT !.pc = "assign"]
    /\ UNCHANGED <<product_to_aliases, source, lastOp, calls, match, sql,
                   validation, suggest, parse, schema, extract>>

\* product_aliases.py:171, and the test of line 174
WriterAssign ==
    /\ race.pc = "assign"
    /\ aliases_config' = add_alias_assign(aliases_config, race.category, race.alias,
                                          race.targets)
    /\ race' = [race EXCEPT !.pc = IF race.category = "product_aliases"
                                   THEN "index_new" ELSE "done",
                            !.i = 1]
    /\ UNCHANGED <<product_to_aliases, source, lastOp, calls, match, sql,
                   validation, suggest, parse, schema, extract>>

\* product_aliases.py:176-177, for the target the loop is at
WriterIndexNew ==
    /\ race.pc = "index_new"
    /\ product_to_aliases' = add_alias_index_new(product_to_aliases, race.targets[race.i])
    /\ race' = [race EXCEPT !.pc = "index_add"]
    /\ UNCHANGED <<aliases_config, source, lastOp, calls, match, sql,
                   validation, suggest, parse, schema, extract>>

\* product_aliases.py:178, and the next turn of the loop of line 175
WriterIndexAdd ==
    /\ race.pc = "index_add"
    /\ product_to_aliases' = add_alias_index_add(product_to_aliases, race.targets[race.i],
                                                 race.alias)
    /\ race' = [race EXCEPT !.pc = IF race.i < Len(race.targets)
                                   THEN "index_new" ELSE "done",
                            !.i = race.i + 1]
    /\ UNCHANGED <<aliases_config, source, lastOp, calls, match, sql,
                   validation, suggest, parse, schema, extract>>

\* A reader thread calls get_aliases_for_category('product_aliases') and
\* get_aliases_for_product(p)
ReaderReads ==
    /\ race.pc # "idle"
    /\ \E p \in {JavaScript, PythonSDK} :
            race' = [race EXCEPT !.read = TRUE,
                                 !.seen = ReaderView(aliases_config, product_to_aliases, p)]
    /\ UNCHANGED <<storeVars, match, sql, validation, suggest, parse, schema, extract>>

RaceNext ==
    \/ WriterEnsureCategory
    \/ WriterAssign
    \/ WriterIndexNew
    \/ WriterIndexAdd
    \/ ReaderReads

SpecRace == RaceInit /\ [][RaceNext]_vars

----------------------------------------------------------------------------
(* Reading the answer of the local model as a state machine: an answer is
   drawn, then read *)

MaxParts == 3

\* Pieces of an answer: prose, an object, an object holding an object, an
\* object holding a brace in a string, braces around prose, an open brace
ResponseParts ==
    {<<"S","u","r","e",":"," ">>, <<"{","\"","t","\"",":","\"","T","\"",","," ","\"","w","\"",":"," ","\"","x","\"","}">>, <<"{","\"","c","\"",":","{","\"","a","\"",":","\"","b","\"","}",",","\"","t","\"",":","\"","T","\"","}">>, <<"{","\"","w","\"",":","\"","a","}","b","\"","}">>, <<"{","o","o","p","s","}">>, <<" ","{">>, <<"\n">>}

\* The answers put together from at most n pieces
RECURSIVE ResponseTexts(_)
ResponseTexts(n) ==
    IF n = 0 THEN {<<>>}
    ELSE LET shorter == ResponseTexts(n - 1)
         IN shorter \cup {t \o f : t \in shorter, f \in ResponseParts}

ExtractInit ==
    /\ source = AbsentSource
    /\ aliases_config = Constructed(AbsentSource).config
    /\ product_to_aliases = Constructed(AbsentSource).index
    /\ lastOp = NoOp
    /\ calls = 0
    /\ match = NoMatch
    /\ sql = NoSql
    /\ validation = NoValidation /\ suggest = NoSuggest /\ parse = NoParse
    /\ schema = NoSchema /\ race = NoRace
    /\ extract \in {[NoExtract EXCEPT !.response = r] : r \in ResponseTexts(MaxParts)}

\* parser.extract_json_from_response(response)
ExtractJsonFromResponse ==
    /\ ~extract.done
    /\ LET r == extract_json_from_response(extract.response)
       IN extract' = [extract EXCEPT !.done = TRUE, !.kind = r.kind, !.value = r.value]
    /\ UNCHANGED <<storeVars, match, sql, validation, suggest, parse, schema, race>>

ExtractNext == ExtractJsonFromResponse

SpecExtract == ExtractInit /\ [][ExtractNext]_vars

----------------------------------------------------------------------------
(* Properties of the store *)

\* The targets configured in the product category
ProductTargets(cfg) ==
    LET pa == get_aliases_for_category(cfg, "product_aliases")
    IN UNION {Elems(pa[a]) : a \in DOMAIN pa}

\* The reverse index that the configuration determines
DerivedIndex(cfg) ==
    LET pa == get_aliases_for_category(cfg, "product_aliases")
    IN [p \in ProductTargets(cfg) |-> {a \in DOMAIN pa : p \in Elems(pa[a])}]

\* C1: in every state reached by loading a configuration and applying
\* add_alias calls, alias a is in get_aliases_for_product(p) if and only if
\* p is a target of a in the product_aliases category.
C1_ReverseIndexConsistent ==
    LET pa == get_aliases_for_category(aliases_config, "product_aliases")
    IN \A p \in DOMAIN product_to_aliases \cup ProductTargets(aliases_config) :
         \A a \in DOMAIN pa \cup UNION {product_to_aliases[q] : q \in DOMAIN product_to_aliases} :
            (a \in get_aliases_for_product(product_to_aliases, p))
                <=> (a \in DOMAIN pa /\ p \in Elems(pa[a]))

\* What one add_alias(c, a, t, persist = False) step leaves behind
AddAliasPost(c, a, t) ==
    LET key == Lower(a)
        old == aliases_config
        new == aliases_config'
        again == add_alias(new, product_to_aliases', source', c, a, t, FALSE, "ok")
    IN /\ DOMAIN new.cats = DOMAIN old.cats \cup {c}
       /\ key \in DOMAIN new.cats[c]
       /\ new.cats[c][key] = t
       /\ \A c2 \in DOMAIN new.cats : \A a2 \in DOMAIN new.cats[c2] :
            <<c2, a2>> # <<c, key>> =>
                /\ c2 \in DOMAIN old.cats
                /\ a2 \in DOMAIN old.cats[c2]
                /\ new.cats[c2][a2] = old.cats[c2][a2]
       /\ \A c2 \in DOMAIN old.cats : DOMAIN old.cats[c2] \subseteq DOMAIN new.cats[c2]
       /\ new.hasMeta = old.hasMeta /\ new.meta = old.meta
       /\ again.config = new
       /\ again.index = product_to_aliases'

\* C7: add_alias(c, a, T, persist = False) leaves category c present with
\* get_category(c)[lowercase(a)] = T whatever the entry held before, changes no
\* other entry, and a second call with the same arguments changes nothing in
\* the configuration and the reverse index.
C7_AddAliasLastWriteWins ==
    [][\A c \in CategoryInputs, a \in AliasInputs, t \in TargetLists :
          AddAlias(c, a, t, FALSE, "ok") => AddAliasPost(c, a, t)]_vars

\* C7 witness: an add_alias that replaced the targets of an existing alias
C7_Witness ==
    /\ lastOp.op = "add_alias"
    /\ lastOp.overwrote
    /\ ~lastOp.save

\* Equality of two configurations apart from metadata.last_updated
SameExceptLastUpdated(x, y) ==
    /\ x.cats = y.cats
    /\ x.hasMeta = y.hasMeta
    /\ DOMAIN x.meta \ {"last_updated"} = DOMAIN y.meta \ {"last_updated"}
    /\ \A f \in DOMAIN x.meta \ {"last_updated"} : x.meta[f] = y.meta[f]

\* C8: a fresh load right after a successful save gives a configuration equal
\* to the saved in-memory one apart from metadata.last_updated, and a reverse
\* index equal to the one that configuration determines.
C8_SaveLoadRoundTrip ==
    [][(lastOp.save /\ lastOp.env = "ok" /\ lastOp'.op = "load") =>
          /\ SameExceptLastUpdated(aliases_config', aliases_config)
          /\ product_to_aliases' = DerivedIndex(aliases_config')]_vars

\* C8 witness: a load after a successful save of a configuration to which
\* add_alias had added a category
C8_Witness ==
    /\ lastOp.op = "load"
    /\ lastOp.afterSave
    /\ "custom_aliases" \in DOMAIN aliases_config.cats

\* C9: a save whose write fails ends in an error raised to the caller, and
\* AliasManager.add_alias does not report such a call as a success.
C9_FailedSaveIsReported ==
    (lastOp.save /\ lastOp.env # "ok") =>
        /\ lastOp.raised
        /\ lastOp.op = "manager_add_alias" => lastOp.reported = "failed"

\* C10: a save_config call that fails leaves the in-memory configuration and
\* the source as they were before the call, and the source never holds a
\* partially written document.
C10_FailedSaveChangesNothing ==
    [][(lastOp'.op = "save_config" /\ lastOp'.env # "ok") =>
          /\ aliases_config' = aliases_config
          /\ source' = source
          /\ source'.kind # "partial"]_vars

----------------------------------------------------------------------------
(* Properties of the matcher *)

\* C3: find_matches(text, category, allowed_targets) returns exactly the
\* targets t for which some alias of the category is a substring of the
\* lowercased text, t is in that alias's target list and, when allowed_targets
\* is given, t is in allowed_targets; a text that contains no alias of the
\* category gives the empty set.
C3_FindMatchesIsSubstringUnion ==
    (match.op = "find_matches_by_category" /\ match.done) =>
        LET mapping == get_aliases_for_category(aliases_config, match.category)
            hits == {a \in DOMAIN mapping : Contains(Lower(match.text), a)}
            expected == {t \in UNION {Elems(mapping[a]) : a \in hits} :
                            \/ ~match.available.given
                            \/ t \in Elems(match.available.values)}
        IN /\ match.result = expected
           /\ hits = {} => match.result = {}

\* C3 witness: a call whose allowed_targets kept some targets of the aliases
\* found in the text and dropped others
C3_Witness ==
    /\ match.op = "find_matches_by_category"
    /\ match.done
    /\ match.available.given
    /\ match.result # {}
    /\ LET mapping == get_aliases_for_category(aliases_config, match.category)
       IN \E a \in DOMAIN mapping :
            /\ Contains(Lower(match.text), a)
            /\ \E t \in Elems(mapping[a]) : t \notin match.result

\* The alias table a matcher call reads
CalledTable ==
    CASE match.op = "find_matches_by_category" ->
            get_aliases_for_category(aliases_config, match.category)
      [] match.op = "find_matches" -> EnhancedTable(match.category)
      [] OTHER -> EmptyMap

\* A finished find_matches call, without allowed_targets, whose text is an
\* alias of the category that is mapped to a list of targets
AliasAsText ==
    /\ match.done
    /\ match.op \in {"find_matches_by_category", "find_matches"}
    /\ ~match.available.given
    /\ ~(match.op = "find_matches" /\ match.category \in StrValued)
    /\ match.text \in DOMAIN CalledTable

\* C4 as stated: for every alias a mapped to targets T in category c,
\* find_matches(a, c) is exactly T, also when another alias of the category
\* is a substring of a.
C4_AliasMatchesExactlyItsTargets ==
    AliasAsText => match.result = Elems(CalledTable[match.text])

\* C4 as amended: for every alias a mapped to a list of targets T in category
\* c, find_matches(a, c) is the union of the target lists of the aliases of c
\* that are substrings of a; it contains T, and it is exactly T when no other
\* alias of c is a substring of a.
C4_AliasMatchesTargetsOfContainedAliases ==
    AliasAsText =>
        LET inner == {b \in DOMAIN CalledTable : Contains(match.text, b)}
        IN /\ match.result = UNION {Elems(CalledTable[b]) : b \in inner}
           /\ Elems(CalledTable[match.text]) \subseteq match.result
           /\ inner = {match.text} => match.result = Elems(CalledTable[match.text])

\* C4 witness: an alias used as text that contains another alias of its
\* category, so that the result holds more than its own targets
C4_Witness ==
    /\ AliasAsText
    /\ match.op = "find_matches_by_category"
    /\ match.result # Elems(CalledTable[match.text])

\* The available products whose name occurs in the text, case-insensitively
NamedProducts ==
    {p \in Elems(match.available.values) : Contains(Lower(match.text), Lower(p))}

\* The available products that are a target of a product alias in the text
AliasedProducts ==
    LET pa == get_aliases_for_category(aliases_config, "product_aliases")
    IN {p \in Elems(match.available.values) :
          \E a \in DOMAIN pa : Contains(Lower(match.text), a) /\ p \in Elems(pa[a])}

\* C5: when at least one available product name occurs in the text, the
\* result of find_products is exactly the available products whose name
\* occurs in the text, and no product comes from an alias match.
C5_DirectMatchPrecedence ==
    (match.op = "find_products_by_query" /\ match.done /\ NamedProducts # {}) =>
        match.result = NamedProducts

\* C5 witness: a product named in the text, while an alias of another
\* available product also occurs in the text and is not in the result
C5_Witness ==
    /\ match.op = "find_products_by_query"
    /\ match.done
    /\ NamedProducts # {}
    /\ AliasedProducts \ match.result # {}

\* C6: when no available product name occurs in the text, the result of
\* find_products is exactly the available products that are a target of a
\* product alias occurring in the lowercased text; "show me js and python
\* usage" with JavaScript, Python-SDK and Java Fluent available gives
\* JavaScript and Python-SDK.
C6_AliasFallback ==
    (match.op = "find_products_by_query" /\ match.done) =>
        /\ NamedProducts = {} => match.result = AliasedProducts
        /\ (/\ match.text = ShowMeJsAndPython
            /\ match.available.values = <<JavaScript, PythonSDK, JavaFluent>>)
                => match.result = {JavaScript, PythonSDK}

\* C6 witness: the example call, answered from the product alias table
C6_Witness ==
    /\ match.op = "find_products_by_query"
    /\ match.done
    /\ match.text = ShowMeJsAndPython
    /\ match.available.values = <<JavaScript, PythonSDK, JavaFluent>>
    /\ get_aliases_for_category(aliases_config, "product_aliases")
            = Enhanced_product_aliases
    /\ NamedProducts = {}
    /\ match.result = {JavaScript, PythonSDK}

----------------------------------------------------------------------------
(* Properties of the SQL guard *)

\* A query text the guard has to refuse: lowercased and trimmed, it does not
\* start with select or it contains a keyword of the denylist
Disallowed(q) ==
    LET text == Strip(Lower(q))
    IN \/ ~StartsWith(text, SelectWord)
       \/ \E i \in DOMAIN dangerous_keywords : Contains(text, dangerous_keywords[i])

\* C2: execute_sql_query_direct refuses every query whose lowercased, trimmed
\* text does not start with select or contains a keyword of the denylist: it
\* returns an error result and the SQL client is not called; so every query
\* that reaches the SQL client starts with select and holds no such keyword.
C2_DisallowedQueryNeverReachesClient ==
    sql.done =>
        /\ Disallowed(sql.query) =>
              /\ sql.sent = <<>>
              /\ sql.result \in {OnlySelectError, ProhibitedError}
        /\ \A i \in DOMAIN sql.sent : ~Disallowed(sql.sent[i])

\* C2 witness: "DROP TABLE X" was refused and nothing was sent to the client
C2_Witness ==
    /\ sql.op = "execute_sql_query_direct"
    /\ sql.done
    /\ sql.query = DropTableX
    /\ sql.sent = <<>>
    /\ sql.result = OnlySelectError

----------------------------------------------------------------------------
(* Properties of loading *)

\* C11: load fails with ConfigNotFound when the configuration source does not
\* exist, and returns no configuration in that case.
C11_LoadOfAbsentSourceFails ==
    (lastOp.op = "load" /\ source.kind = "absent") => lastOp.raised

\* The categories the specification requires of a configuration
RequiredCategories ==
    {"product_aliases", "os_aliases", "http_method_aliases", "provider_aliases",
     "resource_aliases", "time_aliases", "quantity_aliases"}

\* The store after a load that could not parse its source: nothing was
\* raised, every required category is an empty mapping, the index is empty
DegradedStore ==
    /\ ~lastOp.raised
    /\ RequiredCategories \subseteq DOMAIN aliases_config.cats
    /\ \A c \in DOMAIN aliases_config.cats : aliases_config.cats[c] = EmptyMap
    /\ product_to_aliases = EmptyMap

\* A finished call on a matcher of the mapper
MapperCallDone ==
    match.done /\ match.op \in {"find_matches_by_category", "find_products_by_query"}

\* C12 as stated: after a load of a source that cannot be parsed, nothing is
\* raised, every required category is present and empty, the reverse index is
\* empty, and every find_matches and find_products call returns the empty set.
C12_UnparsedSourceGivesEmptyAnswers ==
    (lastOp.op = "load" /\ source.kind = "partial") =>
        /\ DegradedStore
        /\ MapperCallDone => match.result = {}

\* C12 as amended: after a load of a source that cannot be parsed, nothing is
\* raised, every required category is present and empty, the reverse index is
\* empty, every find_matches call returns the empty set, and a find_products
\* call returns exactly the available products named in the text.
C12_UnparsedSourceGivesNoAliasMatches ==
    (lastOp.op = "load" /\ source.kind = "partial") =>
        /\ DegradedStore
        /\ (match.done /\ match.op = "find_matches_by_category") => match.result = {}
        /\ (match.done /\ match.op = "find_products_by_query") =>
                match.result = {p \in Elems(match.available.values) :
                                   Contains(Lower(match.text), Lower(p))}

\* C12 witness: on the degraded store, find_products still answers with a
\* product that the text names
C12_Witness ==
    /\ lastOp.op = "load" /\ source.kind = "partial"
    /\ lastOp.caught # NoError
    /\ match.done /\ match.op = "find_products_by_query"
    /\ match.text = PythonSdkUsage
    /\ match.result = {PythonSDK}

----------------------------------------------------------------------------
(* Properties of validate_config *)

\* The findings the specification asks of validate(): one for each category
\* with no alias, one for each alias with no target, one for each of version,
\* last_updated, description that the metadata lacks
ExpectedFindings(cfg) ==
    {[kind |-> "empty_category", category |-> c, name |-> <<>>] :
        c \in {x \in DOMAIN cfg.cats : DOMAIN cfg.cats[x] = {}}}
    \cup
    {[kind |-> "no_targets", category |-> ca[1], name |-> ca[2]] :
        ca \in {x \in UNION {{<<c, a>> : a \in DOMAIN cfg.cats[c]} : c \in DOMAIN cfg.cats} :
                  Len(cfg.cats[x[1]][x[2]]) = 0}}
    \cup
    {[kind |-> "missing_metadata", category |-> "_metadata", name |-> f] :
        f \in {x \in {"version", "last_updated", "description"} :
                  ~cfg.hasMeta \/ x \notin DOMAIN cfg.meta}}

\* C13: validate() returns a list holding exactly one issue for each category
\* with zero aliases, each alias with zero targets and each missing metadata
\* field among version, last_updated, description; it never fails and never
\* modifies the configuration.
C13_ValidateReturnsTheFindings ==
    validation.done =>
        /\ ~validation.raised
        /\ validation.returned.isList
        /\ validation.returned.items = ExpectedFindings(aliases_config)

----------------------------------------------------------------------------
(* Properties of the SQL suggestion *)

\* A finished call that suggested a statement
Suggested == suggest.done /\ suggest.kind = "suggested_sql"

\* Whether the specification has a filter emitted for a where clause: not
\* for the empty clause, not for the tautology 1=1
FilterEmitted(where_clause) == where_clause \notin {<<>>, NoFilter}

\* C14: build_select returns 'SELECT ', the limit clause and a space when
\* it is not empty, the columns joined by ', ', ' FROM ' and the table,
\* ' WHERE ' and the where clause when a filter is emitted, a space and the
\* order clause when it is not empty, in this order.
C14_BuildSelectSegments ==
    Suggested =>
        LET p == suggest.parsed
        IN suggest.sql =
              SELECT \o <<" ">>
              \o (IF p.limit_clause # <<>> THEN p.limit_clause \o <<" ">> ELSE <<>>)
              \o Join(<<","," ">>, p.columns) \o <<" ","F","R","O","M"," ">> \o p.table_name
              \o (IF FilterEmitted(p.where_clause)
                  THEN <<" ","W","H","E","R","E"," ">> \o p.where_clause ELSE <<>>)
              \o (IF p.order_clause # <<>> THEN <<" ">> \o p.order_clause ELSE <<>>)

\* C15: a limit clause that is not empty occurs exactly once in the statement,
\* right after the leading SELECT, whatever the table, columns, where clause
\* and order clause are, also when their text holds the word SELECT.
C15_LimitClauseOnceAfterSelect ==
    (Suggested /\ suggest.parsed.limit_clause # <<>>) =>
        /\ Occurrences(suggest.sql, suggest.parsed.limit_clause) = {Len(SELECT) + 2}
        /\ SubSeq(suggest.sql, 1, Len(SELECT)) = SELECT

\* C16: with the empty string as where clause, build_select leaves the WHERE
\* segment out: the statement holds no WHERE keyword.
C16_EmptyWhereClauseOmitted ==
    (Suggested /\ suggest.parsed.where_clause = <<>>) =>
        Occurrences(suggest.sql, <<"W","H","E","R","E">>) = {}

----------------------------------------------------------------------------
(* Properties of the parse request *)

\* What the AI-backed parser of the request answered
AiAnswer ==
    IF parse.parser = "cloud"
    THEN AIQueryParser_parse_with_ai(parse.ai, parse.enabled_tables)
    ELSE LocalAIQueryParser_parse_with_ai(parse.ai, parse.enabled_tables)

\* The AI-backed parser was asked, and its response has no error field and
\* a confidence of 0.7 or more
AiAcceptable ==
    /\ parse.use_ai
    /\ parse.ai.kind # "run_raises"
    /\ ~AiAnswer.hasError
    /\ AiAnswer.confKind = "number"
    /\ AiAnswer.confidence >= ConfidenceThreshold

\* What the rule-based parser of the request answers
FallbackAnswer ==
    IF parse.parser = "cloud"
    THEN fallback_rule_based_parsing(parse.user_question, parse.enabled_tables, parse.info)
    ELSE fallback_parsing(parse.user_question, parse.enabled_tables, parse.info)

\* C17: a parse request returns the AI-backed parser's result if and only if
\* that response has no error field and a confidence of 0.7 or more; in every
\* other case it returns the result of the rule-based fallback parser, and the
\* fallback parser is not run once an AI result was accepted
C17_EvaluateGating ==
    parse.done =>
        /\ (parse.result.from = "ai") <=> AiAcceptable
        /\ AiAcceptable => parse.result = AiAnswer /\ ~parse.fallback_ran
        /\ ~AiAcceptable => parse.result = FallbackAnswer /\ parse.fallback_ran

\* The AI call of the request timed out, failed in transport, or answered
\* with confidence 0.4
AiFailedOrUnsure ==
    /\ parse.use_ai
    /\ \/ parse.ai.kind \in {"timeout", "transport"}
       \/ /\ parse.ai.kind = "answer"
          /\ parse.ai.json = "object"
          /\ parse.ai.confKind = "number"
          /\ parse.ai.confidence = 4

\* C18: when the AI call times out, fails in transport or answers with
\* confidence 0.4, the caller gets a result with fallback_used True and
\* ai_parsed False and no exception, with the cloud parser and with the local
\* one (stated for requests made while a table is enabled)
C18_FailedAiYieldsFallbackResult ==
    (parse.done /\ AiFailedOrUnsure /\ parse.enabled_tables # <<>>) =>
        /\ parse.result.fallback_used = "True"
        /\ parse.result.ai_parsed = "False"
        /\ ~parse.raised

\* C19: the rule-based fallback parser returns a result without error
\* whenever a table is enabled, with the columns '*' when get_table_info finds
\* nothing for the chosen table, and returns the error "No enabled tables
\* found" exactly when no table is enabled
C19_FallbackSucceedsIffTableEnabled ==
    (parse.done /\ parse.fallback_ran) =>
        /\ parse.result.hasError <=> parse.enabled_tables = <<>>
        /\ parse.result.hasError => parse.result.error = "No enabled tables found"
        /\ ~parse.result.hasError =>
                /\ parse.result.from = "fallback"
                /\ parse.result.table_name \in TableNamesOf(parse.enabled_tables)
                /\ ~parse.info => parse.result.columns = <<<<"*">>>>

\* The fallback ran for a chosen table that get_table_info does not find
C19_Witness ==
    /\ parse.done
    /\ parse.fallback_ran
    /\ parse.enabled_tables # <<>>
    /\ ~parse.info
    /\ ~parse.result.hasError
    /\ parse.result.columns = <<<<"*">>>>

----------------------------------------------------------------------------
(* Properties of the tools *)

\* The call on the SQL tools failed: the query was refused or the client raised
SqlCallFailed == Disallowed(sql.query) \/ sql.client = "raises"

\* C20: every tool call returns a result, and the result of a failed call
\* (a refused query, a collaborator that raises or reports an error) carries
\* an error field while the result of a successful call carries none
C20_FailedCallCarriesErrorField ==
    /\ sql.done =>
          /\ sql.result # "none"
          /\ SqlCallFailed <=> sql.result \in {OnlySelectError, ProhibitedError, ExecutionError}
    /\ suggest.done =>
          /\ suggest.kind # "none"
          /\ (suggest.outcome # "parsed") <=> suggest.hasError
    /\ schema.done =>
          /\ schema.kind # "none"
          /\ (schema.outcome = "raises") <=> schema.hasError

----------------------------------------------------------------------------
(* Properties of add_alias beside a reader *)

\* The store the add_alias call of the race leaves when it runs alone
RaceAfter ==
    add_alias_memory(race.before.config, race.before.index, race.category,
                     race.alias, race.targets)

\* The statements of add_alias, run one after the other, do what add_alias does
RaceStepsMakeAddAlias ==
    race.pc = "done" =>
        /\ aliases_config = RaceAfter.config
        /\ product_to_aliases = RaceAfter.index

\* C21: with add_alias on product_aliases running beside readers, what a
\* reader gets from get_category and get_aliases_for_product is what the store
\* held before the call or what it holds after it: the configuration write
\* and the index update are one step for readers
C21_AddAliasIsOneStepForReaders ==
    (race.read /\ race.category = "product_aliases") =>
        \/ race.seen = ReaderView(race.before.config, race.before.index, race.seen.product)
        \/ race.seen = ReaderView(RaceAfter.config, RaceAfter.index, race.seen.product)

----------------------------------------------------------------------------
(* Properties of the rule-based fallback of AIQueryParser *)

\* A finished request that AIQueryParser's rule-based fallback answered
\* with a result
RuleBasedResult ==
    /\ parse.done
    /\ parse.parser = "cloud"
    /\ parse.fallback_ran
    /\ ~parse.result.hasError

\* The table of the request a keyword found in the lowercased text selects
Qualifies(table) ==
    \E i \in DOMAIN FallbackKeywords :
        /\ Contains(Lower(parse.user_question), FallbackKeywords[i])
        /\ Contains(Lower(table.name), FallbackKeywords[i])

\* C22: the rule-based fallback chooses the first enabled table whose name
\* holds a keyword of {product, customer, usage} found in the lowercased text,
\* and the first enabled table only when no enabled table qualifies
C22_TableSelection ==
    RuleBasedResult =>
        LET tables == parse.enabled_tables
            hits == {i \in DOMAIN tables : Qualifies(tables[i])}
        IN IF hits = {}
           THEN parse.result.table_name = tables[1].name
           ELSE parse.result.table_name =
                    tables[CHOOSE i \in hits : \A j \in hits : i <= j].name

\* The enabled table a rule-based result names
ChosenTable ==
    LET tables == parse.enabled_tables
    IN tables[CHOOSE i \in DOMAIN tables : tables[i].name = parse.result.table_name]

MonthLike(date) ==
    <<"M","o","n","t","h"," ","L","I","K","E"," ","'">> \o IntText(date.year) \o <<"-">>
        \o (IF date.month < 10 THEN <<"0">> ELSE <<>>) \o IntText(date.month)
        \o <<"%", "'">>

\* C24: on every date, the where_clause of a rule-based result is
\* Month LIKE '<YYYY>-<MM>%' for the year and month of the call if the
\* lowercased text contains "this month", and 1=1 otherwise
C24_WhereNamesCurrentMonth ==
    RuleBasedResult =>
        parse.result.where_clause =
            (IF Contains(Lower(parse.user_question), <<"t","h","i","s"," ","m","o","n","t","h">>)
             THEN MonthLike(parse.now) ELSE NoFilter)

\* C25: the order_clause of a rule-based result is ORDER BY RequestCount DESC
\* if and only if the lowercased text contains "top", also inside a longer
\* word, and is empty otherwise; so a limit_clause never comes without an
\* order_clause
C25_OrderIffTop ==
    RuleBasedResult =>
        /\ parse.result.order_clause =
                (IF Contains(Lower(parse.user_question), <<"t","o","p">>)
                 THEN <<"O","R","D","E","R"," ","B","Y"," ","R","e","q","u","e","s","t","C","o","u","n","t"," ","D","E","S","C">> ELSE <<>>)
        /\ parse.result.limit_clause # <<>> => parse.result.order_clause # <<>>

\* "laptop usage" is ordered and not limited
C25_Witness ==
    /\ RuleBasedResult
    /\ parse.user_question = <<"l","a","p","t","o","p"," ","u","s","a","g","e">>
    /\ parse.result.order_clause = <<"O","R","D","E","R"," ","B","Y"," ","R","e","q","u","e","s","t","C","o","u","n","t"," ","D","E","S","C">>
    /\ parse.result.limit_clause = <<>>

\* s holds "top" at i, then white space up to d, then exactly n digits
IsTopMatch(s, i, d, n) ==
    /\ i + 2 <= Len(s) /\ SubSeq(s, i, i + 2) = <<"t","o","p">>
    /\ d > i + 3
    /\ n >= 1
    /\ d + n - 1 <= Len(s)
    /\ \A k \in (i + 3)..(d - 1) : s[k] \in Whitespace
    /\ \A k \in d..(d + n - 1) : s[k] \in Elems(DigitChars)
    /\ d + n <= Len(s) => s[d + n] \notin Elems(DigitChars)

\* The matches of top\s+(\d+) in s, as <<start, first digit, digits>>
TopMatchesIn(s) ==
    {m \in (1..Len(s)) \X (1..Len(s)) \X (1..Len(s)) : IsTopMatch(s, m[1], m[2], m[3])}

\* C26: the limit_clause of a rule-based result is "TOP " followed by the
\* digits the first match of top\s+(\d+) in the lowercased text captured,
\* copied as they are, and is empty when the pattern does not match
C26_LimitIsFirstCapturedNumber ==
    RuleBasedResult =>
        LET s == Lower(parse.user_question)
            ms == TopMatchesIn(s)
        IN IF ms = {}
           THEN parse.result.limit_clause = <<>>
           ELSE LET m == CHOOSE x \in ms : \A y \in ms : x[1] <= y[1]
                IN parse.result.limit_clause =
                       <<"T","O","P"," ">> \o SubSeq(s, m[2], m[2] + m[3] - 1)

\* "top 007 of top 5" is limited to 007
C26_Witness ==
    /\ RuleBasedResult
    /\ parse.user_question = <<"t","o","p"," ","0","0","7"," ","o","f"," ","t","o","p"," ","5">>
    /\ parse.result.limit_clause = <<"T","O","P"," ","0","0","7">>

----------------------------------------------------------------------------
(* Properties of every parse result *)

\* C28: every result without error that parse_user_query returns, from the AI
\* or from the fallback, of AIQueryParser or of LocalAIQueryParser, names a
\* table the schema reports as enabled and has a where_clause that is not
\* empty; with no table enabled, no result without error is returned
C28_ResultNamesEnabledTable ==
    (parse.done /\ ~parse.result.hasError) =>
        /\ parse.result.table_name \in TableNamesOf(parse.enabled_tables)
        /\ parse.result.where_clause # <<>>

\* C30: a result of a rule-based fallback names only columns of the selected
\* table: each entry of columns is a column of the table, or columns is the
\* wildcard, and the column a given order_clause names is a column of the table
C30_FallbackNamesExistingColumns ==
    (parse.done /\ parse.fallback_ran /\ ~parse.result.hasError) =>
        /\ \/ parse.result.columns = <<<<"*">>>>
           \/ Elems(parse.result.columns) \subseteq Elems(ChosenTable.columns)
        /\ parse.result.order_clause # <<>> =>
                /\ parse.result.order_clause = <<"O","R","D","E","R"," ","B","Y"," ","R","e","q","u","e","s","t","C","o","u","n","t"," ","D","E","S","C">>
                /\ RequestCount \in Elems(ChosenTable.columns)

----------------------------------------------------------------------------
(* Properties of EnhancedAliasMapper.find_matches *)

\* The canonical targets a table of EnhancedAliasMapper configures for an
\* alias: the entries of its list, or the one text a time or quantity alias
\* stands for
WholeTargets(category, alias) ==
    IF category \in StrValued
    THEN {EnhancedTable(category)[alias]}
    ELSE Elems(EnhancedTable(category)[alias])

\* C29: in every category of EnhancedAliasMapper, each element find_matches
\* returns is a whole target configured for an alias of the category that
\* occurs in the lowercased text, never a piece of a target; a category
\* without alias table gives the empty result
C29_FindMatchesReturnsWholeTargets ==
    (match.op = "find_matches" /\ match.done) =>
        \A r \in match.result :
            \E alias \in DOMAIN EnhancedTable(match.category) :
                /\ Contains(Lower(match.text), alias)
                /\ r \in WholeTargets(match.category, alias)

----------------------------------------------------------------------------
(* Properties of reading the answer of the local model *)

\* The places of the response where a well-formed JSON object begins
ObjectStarts(response) ==
    {i \in 1..Len(response) : response[i] = "{" /\ ScanValue(response, i).ok}

\* C27: when the answer of the model holds a well-formed JSON object, within
\* prose or not, the parser takes the first well-formed object of the text
\* and its fields are the result, also when the object holds braces (an
\* object or a brace in a string) or follows a fragment in braces that is
\* not valid JSON
C27_FirstWellFormedObjectExtracted ==
    (extract.done /\ ObjectStarts(extract.response) # {}) =>
        LET first == CHOOSE x \in ObjectStarts(extract.response) :
                        \A y \in ObjectStarts(extract.response) : x <= y
        IN /\ extract.kind = "json"
           /\ extract.value = ScanValue(extract.response, first).val

====
